---- MODULE Spec2Model ----
(***************************************************************************)
(* Credential lifecycle of the Antigravity credential manager              *)
(* (backend/app/routers/antigravity_manage.py, antigravity_oauth.py).      *)
(* The persisted credential table is the variable creds; one action per    *)
(* HTTP handler or background step.                                        *)
(***************************************************************************)
EXTENDS Integers, FiniteSets, Sequences, TLC

VARIABLES
    creds,    \* credential table: id -> row (api_type = "antigravity")
    nextId,   \* autoincrement primary key
    last,     \* history: the last handler call / background step and its outcome
    runs,     \* background batch tasks (verify-all / start-all)
    wlog,     \* history: per credential id, the api_key values committed, in order
    now,      \* clock (seconds)
    rs,       \* the project id resolution in progress (fetch_antigravity_project_id)
    imp,      \* the file import in progress (upload_antigravity_credentials)
    ulog,     \* usage-log table: the credential_id of each record, 0 for NULL
    sem,      \* one background batch seen through its semaphore
    cache,    \* SimpleCache: its two local maps; whether the remote store answers
    auth,     \* users and API keys of the persisted store
    redis,    \* RedisService: its memory fallback maps and connection flag
    cb        \* /from-callback-url requests between their lookup and their commit

vars == <<creds, nextId, last, runs, wlog, now, rs, imp, ulog, sem, cache, auth, redis, cb>>

----------------------------------------------------------------------------
(* Bounds of the model *)

MaxCreds == 2

MaxRuns == 2

MaxNow == 1

CooldownSeconds == 2

Users == {"u1", "u2"}

\* project ids: "" none, "P" returned by the resolver, "R" a synthesized placeholder
NoProject == ""

ResolverOutcomes == {NoProject, "P"}

\* HTTP status codes the probe may answer, and 0 for a raised exception
ProbeException == 0

ProbeOutcomes == {200, 429, 401, 403, 500, ProbeException}

\* Exception texts, by what the handlers look at: the length and the position
\* (1-based, 0 = none) of a substring "401"/"403"
ExcMsgs == {[len |-> 7, at |-> 0], [len |-> 40, at |-> 32]}

TokenOutcomes == {"cached", "refreshed", "none", "raise"}

----------------------------------------------------------------------------
(* last_error values *)

\* str(e)[:n]
Truncate(m, n) ==
    [len |-> IF m.len < n THEN m.len ELSE n,
     at  |-> IF m.at > 0 /\ m.at + 2 <= n THEN m.at ELSE 0]

NoError == [k |-> "none", code |-> 0, at |-> 0]

ErrAuth(code) == [k |-> "auth", code |-> code, at |-> 0]

ErrApi(code) == [k |-> "api", code |-> code, at |-> 0]

ErrRequest(m) == [k |-> "exc", code |-> 0, at |-> Truncate(m, 30).at]

ErrNoProject == [k |-> "noproj", code |-> 0, at |-> 0]

ErrNoToken == [k |-> "notoken", code |-> 0, at |-> 0]

ErrTokenExc(m) == [k |-> "tokexc", code |-> 0, at |-> Truncate(m, 50).at]

\* cred.last_error and ('403' in cred.last_error or '401' in cred.last_error)
HasAuthCode(e) ==
    /\ e.k # "none"
    /\ \/ e.k \in {"auth", "api"} /\ e.code \in {401, 403}
       \/ e.at > 0

----------------------------------------------------------------------------
(* Probe classification at each probe site *)

\* (variant: 429 taken for an authentication failure)
VerifyVerdictMut(status, m) ==
    IF status = ProbeException THEN [is_valid |-> FALSE, error |-> ErrRequest(m)]
    ELSE IF status = 200 THEN [is_valid |-> TRUE, error |-> NoError]
    ELSE IF status \in {401, 403, 429} THEN [is_valid |-> FALSE, error |-> ErrAuth(status)]
    ELSE [is_valid |-> FALSE, error |-> ErrApi(status)]

\* verify_my / admin_verify: (is_valid, error_msg) from the probe
VerifyVerdict(status, m) ==
    IF status = ProbeException THEN [is_valid |-> FALSE, error |-> ErrRequest(m)]
    ELSE IF status \in {200, 429} THEN [is_valid |-> TRUE, error |-> NoError]
    ELSE IF status \in {401, 403} THEN [is_valid |-> FALSE, error |-> ErrAuth(status)]
    ELSE [is_valid |-> FALSE, error |-> ErrApi(status)]

\* upload: is_valid is set only by a 200/429 answer; an exception leaves it False
UploadValid(tokOut, project, status) ==
    /\ tokOut \in {"cached", "refreshed"}
    /\ project # NoProject
    /\ status \in {200, 429}

\* OAuth callback: is_valid starts True and only a 401/403 answer clears it
CallbackValid(status) == ~(status \in {401, 403})

\* verify-all: is_valid = resp.status_code in [200, 429]; an exception gives False
BatchValid(project, status) == project # NoProject /\ status \in {200, 429}

----------------------------------------------------------------------------
(* The credential table *)

\* the kind tag of the rows this router manages
MODE == "antigravity"

\* encrypt_credential / decrypt_credential (app.services.crypto): a secret at
\* rest is the plaintext under a seal; equal plaintexts give equal ciphertexts,
\* which the duplicate check on refresh_token relies on
encrypt_credential(x) == <<"enc", x>>

decrypt_credential(y) == y[2]

Row(u, email, refresh, pub, act, key, proj) ==
    [user_id |-> u, email |-> email, refresh_token |-> encrypt_credential(refresh),
     is_public |-> pub, is_active |-> act,
     last_error |-> NoError, api_key |-> key, project_id |-> proj,
     last_used_at |-> -1, api_type |-> MODE]

\* (variant: the kind tag not consulted)
OfKindMut(row) == TRUE

\* .where(Credential.api_type == MODE)
OfKind(row) == row.api_type = MODE

\* the rows a select of this router sees
Ids == {c \in DOMAIN creds : OfKind(creds[c])}

\* (variant: the owner not consulted)
OwnedMut(u, c) == c \in Ids

\* .where(Credential.id == cred_id).where(Credential.user_id == user.id)
\* .where(Credential.api_type == MODE), scalar_one_or_none()
Owned(u, c) == c \in Ids /\ creds[c].user_id = u

\* db.add(credential); commit
Insert(row) ==
    creds' = [c \in DOMAIN creds \cup {nextId} |-> IF c = nextId THEN row ELSE creds[c]]

\* (variant: the records of the deleted credentials deleted with them)
UnlinkMut(ids) == SelectSeq(ulog, LAMBDA x : x \notin ids)

\* update(UsageLog).where(UsageLog.credential_id.in_(ids)).values(credential_id=None)
Unlink(ids) == [i \in DOMAIN ulog |-> IF ulog[i] \in ids THEN 0 ELSE ulog[i]]

\* db.delete(cred) for every cred of ids
Remove(ids) == [c \in DOMAIN creds \ ids |-> creds[c]]

\* history of committed api_key writes: the value last written per id, and the
\* tokens the upstream has handed out so far
Wrote(c, tok) ==
    wlog' = [lastw |-> [wlog.lastw EXCEPT ![c] = tok],
             issued |-> wlog.issued \cup ({tok} \ {0})]

\* the row nextId is created holding tok
Created(tok) ==
    wlog' = [lastw |-> [c \in Ids \cup {nextId} |->
                           IF c = nextId THEN tok ELSE wlog.lastw[c]],
             issued |-> wlog.issued \cup ({tok} \ {0})]

----------------------------------------------------------------------------
(* CredentialPool.get_access_token(cred, db): returns the stored token, or a *)
(* refreshed one which it stores on the row, or nothing, or raises           *)

TokenAfter(row, tokOut, tok) == IF tokOut = "refreshed" THEN tok ELSE row.api_key

----------------------------------------------------------------------------
(* POST /credentials/upload, one JSON file; cap bounds the table's size.    *)
(* refresh, docEmail and fileProj are the document's refresh_token, email   *)
(* and project_id, "" when the field is missing or empty                    *)

\* (variant: the file name taken even when the document names an email)
ImportedEmailMut(docEmail, filename) == filename

\* email = cred_data.get("email") or filename
ImportedEmail(docEmail, filename) == IF docEmail = "" THEN filename ELSE docEmail

upload_antigravity_credentials(cap, u, refresh, docEmail, filename, isPublic, forceDonate, fileProj, tokOut, resolved, status) ==
    LET email == ImportedEmail(docEmail, filename)
        same == {c \in Ids : creds[c].email = email}
        sameToken == {c \in Ids : creds[c].refresh_token = encrypt_credential(refresh)}
        wantPublic == isPublic \/ forceDonate
        project == IF tokOut \in {"cached", "refreshed"} /\ fileProj = NoProject
                   THEN resolved ELSE fileProj
        is_valid == UploadValid(tokOut, project, status)
        actual_public == wantPublic /\ is_valid
    IN
    /\ UNCHANGED <<runs, now, rs, imp, ulog, sem, cache, auth, redis, cb>>
    /\ IF refresh = "" \/ Cardinality(same) > 1
            \/ (same = {} /\ Cardinality(sameToken) > 1)
       THEN /\ UNCHANGED <<creds, nextId, wlog>>
            /\ last' = [op |-> "upload", status |-> "error", id |-> 0]
       ELSE IF Cardinality(same) = 1 \/ Cardinality(sameToken) = 1
       THEN /\ UNCHANGED <<creds, nextId, wlog>>
            /\ last' = [op |-> "upload", status |-> "skip", id |-> 0,
                        email |-> email, refresh |-> refresh]
       ELSE /\ Cardinality(Ids) < cap
            /\ Insert(Row(u, email, refresh, actual_public, is_valid, 0, project))
            /\ Created(0)
            /\ nextId' = nextId + 1
            /\ last' = [op |-> "upload",
                        status |-> IF is_valid THEN "success" ELSE "warning",
                        id |-> nextId, wantPublic |-> wantPublic,
                        is_valid |-> is_valid, probe |-> status,
                        probed |-> tokOut \in {"cached", "refreshed"}
                                   /\ project # NoProject,
                        doc |-> [refresh_token |-> refresh, email |-> docEmail,
                                 project_id |-> fileProj]]

----------------------------------------------------------------------------
(* POST /credentials/upload with several files, step by step: the files are *)
(* unpacked, the loop takes the JSON documents one by one, the final commit *)

MaxEntries == 3

\* A JSON document. json = "bad": json.loads fails; refresh = "": the
\* refresh_token field is missing; email: cred_data.get("email") or filename;
\* status: what the import probe answers for this credential
Entry(json, email, refresh, status) ==
    [json |-> json, email |-> email, refresh |-> refresh, status |-> status]

Entries ==
    {Entry("bad", "a", "", 200), Entry("ok", "a", "", 200),
     Entry("ok", "a", "a", 200), Entry("ok", "b", "b", 200),
     Entry("ok", "b", "a", 200), Entry("ok", "b", "b", 500)}

RECURSIVE Preamble(_)
\* the results appended while the files are unpacked; a file is, by kind, a
\* .json document ("json"), a .zip archive of .json documents ("zip"), a .zip
\* that cannot be read ("badzip") or a file with another extension ("other")
Preamble(kinds) ==
    IF kinds = <<>> THEN <<>>
    ELSE (CASE Head(kinds) = "zip" -> <<"info">>
            [] Head(kinds) = "badzip" -> <<"error">>
            [] Head(kinds) = "other" -> <<"error">>
            [] OTHER -> <<>>) \o Preamble(Tail(kinds))

NotImporting ==
    [pc |-> "idle", user |-> "", isPublic |-> FALSE, pre |-> 0, docs |-> <<>>,
     tbl |-> <<>>, nid |-> 0, results |-> <<>>, count |-> 0, failed |-> 0]

\* the handler up to the loop over json_files: the files are unpacked, the
\* session sees the committed table
upload_begin(u, isPublic, forceDonate, kinds) ==
    /\ imp.pc = "idle"
    /\ kinds # <<>>
    /\ imp' = [pc |-> "loop", user |-> u, isPublic |-> (isPublic \/ forceDonate),
               pre |-> Len(Preamble(kinds)), docs |-> <<>>,
               tbl |-> creds, nid |-> nextId, results |-> Preamble(kinds), count |-> 0,
               failed |-> 0]
    /\ UNCHANGED <<creds, nextId, last, runs, wlog, now, rs, ulog, sem, cache, auth, redis, cb>>

Reply(st, status) == [st EXCEPT !.results = Append(@, status)]

\* (variant: the required-field check left out)
ImportEntryMut(st, e) ==
    LET same == {c \in DOMAIN st.tbl : OfKind(st.tbl[c]) /\ st.tbl[c].email = e.email}
        sameToken == {c \in DOMAIN st.tbl : OfKind(st.tbl[c])
                                            /\ st.tbl[c].refresh_token = encrypt_credential(e.refresh)}
        is_valid == e.refresh # "" /\ UploadValid("cached", "P", e.status)
    IN
    IF e.json = "bad" THEN Reply(st, "error")
    ELSE IF Cardinality(same) > 1 THEN Reply(st, "error")
    ELSE IF Cardinality(same) = 1 THEN Reply(st, "skip")
    ELSE IF Cardinality(sameToken) > 1 THEN Reply(st, "error")
    ELSE IF Cardinality(sameToken) = 1 THEN Reply(st, "skip")
    ELSE [st EXCEPT
            !.tbl = [c \in DOMAIN st.tbl \cup {st.nid} |->
                        IF c = st.nid
                        THEN Row(st.user, e.email, e.refresh, st.isPublic /\ is_valid,
                                 is_valid, 0, "P")
                        ELSE st.tbl[c]],
            !.nid = st.nid + 1,
            !.results = Append(st.results, IF is_valid THEN "success" ELSE "warning"),
            !.count = st.count + 1]

\* one pass of the loop over json_files. scalar_one_or_none() raises when more
\* than one row matches; the loop's except clause turns that into an error
ImportEntry(st, e) ==
    LET same == {c \in DOMAIN st.tbl : OfKind(st.tbl[c]) /\ st.tbl[c].email = e.email}
        sameToken == {c \in DOMAIN st.tbl : OfKind(st.tbl[c])
                                            /\ st.tbl[c].refresh_token = encrypt_credential(e.refresh)}
        is_valid == UploadValid("cached", "P", e.status)
    IN
    IF e.json = "bad" THEN Reply(st, "error")
    ELSE IF e.refresh = "" THEN Reply(st, "error")
    ELSE IF Cardinality(same) > 1 THEN Reply(st, "error")
    ELSE IF Cardinality(same) = 1 THEN Reply(st, "skip")
    ELSE IF Cardinality(sameToken) > 1 THEN Reply(st, "error")
    ELSE IF Cardinality(sameToken) = 1 THEN Reply(st, "skip")
    ELSE [st EXCEPT
            !.tbl = [c \in DOMAIN st.tbl \cup {st.nid} |->
                        IF c = st.nid
                        THEN Row(st.user, e.email, e.refresh, st.isPublic /\ is_valid,
                                 is_valid, 0, "P")
                        ELSE st.tbl[c]],
            !.nid = st.nid + 1,
            !.results = Append(st.results, IF is_valid THEN "success" ELSE "warning"),
            !.count = st.count + 1]

\* a commit is made after every CommitEvery-th stored credential
CommitEvery == 50

\* the history of committed api_key writes once the session's table st.tbl is
\* committed
ImportWrites(st) ==
    [wlog EXCEPT !.lastw =
        [c \in {x \in DOMAIN st.tbl : OfKind(st.tbl[x])} |->
            IF c \in Ids THEN wlog.lastw[c] ELSE 0]]

\* the loop takes the next document e of json_files; after every 50th stored
\* credential it commits, and a commit that raises is logged (imp.failed
\* counts the log lines) and the loop goes on with the session as it is
upload_entry(cap, e, commit) ==
    /\ imp.pc = "loop"
    /\ Len(imp.docs) < cap
    /\ LET st == ImportEntry(imp, e)
           periodic == st.count > imp.count /\ st.count % CommitEvery = 0
       IN  /\ commit = "fail" => periodic
           /\ imp' = [st EXCEPT !.docs = Append(@, e),
                                !.failed = IF periodic /\ commit = "fail" THEN @ + 1 ELSE @]
           /\ IF periodic /\ commit = "ok"
              THEN /\ creds' = st.tbl
                   /\ nextId' = st.nid
                   /\ wlog' = ImportWrites(st)
              ELSE UNCHANGED <<creds, nextId, wlog>>
    /\ UNCHANGED <<last, runs, now, rs, ulog, sem, cache, auth, redis, cb>>

\* (variant: the error of a failed retry reaches the caller)
FinalCommitMut(commit, retry) ==
    [persisted |-> commit = "ok",
     commits |-> IF commit = "ok" THEN 1 ELSE 2,
     rollbacks |-> IF commit = "ok" THEN 0 ELSE 1,
     raised |-> commit = "fail" /\ retry = "fail"]

\* the final commit: when it raises, db.rollback() discards what the session
\* holds and db.commit() is called once more, any exception of the two being
\* swallowed
FinalCommit(commit, retry) ==
    [persisted |-> commit = "ok",
     commits |-> IF commit = "ok" THEN 1 ELSE 2,
     rollbacks |-> IF commit = "ok" THEN 0 ELSE 1,
     raised |-> FALSE]

\* json_files is exhausted: the final commit and the answer
upload_commit(commit, retry) ==
    /\ imp.pc = "loop"
    /\ retry = "fail" => commit = "fail"
    /\ LET f == FinalCommit(commit, retry) IN
       /\ IF f.persisted
          THEN /\ creds' = imp.tbl
               /\ nextId' = imp.nid
               /\ wlog' = ImportWrites(imp)
          ELSE UNCHANGED <<creds, nextId, wlog>>
       /\ last' = IF f.raised
                  THEN [op |-> "import", status |-> 500, id |-> 0, raised |-> TRUE,
                        commit |-> commit, retry |-> retry,
                        commits |-> f.commits, rollbacks |-> f.rollbacks]
                  ELSE [op |-> "import", status |-> "answered", id |-> 0,
                        raised |-> FALSE, commit |-> commit, retry |-> retry,
                        commits |-> f.commits, rollbacks |-> f.rollbacks,
                        uploaded_count |-> imp.count,
                        failed |-> imp.failed]
    /\ imp' = NotImporting
    /\ UNCHANGED <<runs, now, rs, ulog, sem, cache, auth, redis, cb>>

----------------------------------------------------------------------------
(* POST /api/agy-oauth/from-callback-url *)

\* (variant: an absent project id stored as it is)
CallbackProjectMut(resolved) == resolved

\* "projects/random-<uuid>/locations/global" ("R") when the resolver gave none
CallbackProject(resolved) == IF resolved = NoProject THEN "R" ELSE resolved

\* (variant: the gemini-3 probe made and counted whatever the baseline answered)
DetectedTierMut(status, status3) ==
    [tier |-> IF status3 \in {200, 429} THEN "3" ELSE "2.5", probed3 |-> TRUE]

\* detected_tier: "3" when the baseline probe answered 200/429 and the second
\* probe (gemini-3-pro-preview), made only then, answered 200/429 too
DetectedTier(status, status3) ==
    [tier |-> IF status \in {200, 429} /\ status3 \in {200, 429} THEN "3" ELSE "2.5",
     probed3 |-> status \in {200, 429}]

\* settings.quota_flash, settings.quota_25pro, settings.quota_30pro
RewardQuotas == [quota_flash |-> 1, quota_25pro |-> 1, quota_30pro |-> 1]

\* (variant: the reward granted to updates as well)
RewardQuotaMut(is_new_credential, is_public, is_valid, detected_tier) ==
    IF is_public /\ is_valid
    THEN RewardQuotas.quota_flash + RewardQuotas.quota_25pro
    ELSE 0

\* reward_quota
RewardQuota(is_new_credential, is_public, is_valid, detected_tier) ==
    IF is_new_credential /\ is_public /\ is_valid
    THEN IF detected_tier = "3"
         THEN RewardQuotas.quota_flash + RewardQuotas.quota_25pro
              + RewardQuotas.quota_30pro
         ELSE RewardQuotas.quota_flash + RewardQuotas.quota_25pro
    ELSE 0

antigravity_credential_from_callback_url(cap, u, exchange, email, refresh, isPublic, tok, resolved, status, status3) ==
    LET project == CallbackProject(resolved)
        existing == {c \in Ids : creds[c].user_id = u /\ creds[c].email = email}
        is_valid == CallbackValid(status)
        detected == DetectedTier(status, status3)
    IN
    /\ UNCHANGED <<runs, now, rs, imp, ulog, sem, cache, auth, redis, cb>>
    /\ IF exchange # "ok" \/ Cardinality(existing) > 1
       THEN /\ UNCHANGED <<creds, nextId, wlog>>
            /\ last' = [op |-> "callback", status |-> "error", id |-> 0]
       ELSE IF existing # {}
       THEN LET c == CHOOSE x \in existing : TRUE IN
            /\ creds' = [creds EXCEPT ![c].api_key = tok,
                                      ![c].refresh_token = encrypt_credential(refresh),
                                      ![c].project_id = project,
                                      ![c].is_active = is_valid]
            /\ Wrote(c, tok)
            /\ UNCHANGED nextId
            /\ last' = [op |-> "callback", status |-> "updated", id |-> c,
                        wantPublic |-> isPublic, is_valid |-> is_valid,
                        probe |-> status, probed |-> TRUE,
                        tier |-> detected.tier, resolved |-> resolved,
                        probed3 |-> detected.probed3, probe3 |-> status3,
                        reward |-> RewardQuota(FALSE, isPublic, is_valid, detected.tier)]
       ELSE /\ Cardinality(Ids) < cap
            /\ Insert(Row(u, email, refresh, isPublic, is_valid, tok, project))
            /\ Created(tok)
            /\ nextId' = nextId + 1
            /\ last' = [op |-> "callback", status |-> "created", id |-> nextId,
                        wantPublic |-> isPublic, is_valid |-> is_valid,
                        probe |-> status, probed |-> TRUE,
                        tier |-> detected.tier, resolved |-> resolved,
                        probed3 |-> detected.probed3, probe3 |-> status3,
                        reward |-> RewardQuota(TRUE, isPublic, is_valid, detected.tier)]

\* The same handler by its two database accesses, for requests that overlap:
\* the lookup of the existing credential (after the code exchange and the
\* project id resolution) and, after the awaited probe, the commit
MaxRequests == 2

Requests == 1..MaxRequests

NoRequests == [q \in Requests |-> [pc |-> "idle"]]

callback_lookup(q, u, email, refresh, isPublic, tok, resolved) ==
    LET existing == {c \in Ids : creds[c].user_id = u /\ creds[c].email = email} IN
    /\ cb[q].pc = "idle"
    /\ IF Cardinality(existing) > 1
       THEN /\ last' = [op |-> "callback", status |-> "error", id |-> 0]
            /\ UNCHANGED cb
       ELSE /\ cb' = [cb EXCEPT ![q] =
                         [pc |-> "probing", user |-> u, email |-> email,
                          refresh |-> refresh, isPublic |-> isPublic, tok |-> tok,
                          project |-> CallbackProject(resolved), existing |-> existing]]
            /\ last' = [op |-> "callback_lookup", status |-> "awaiting", id |-> 0]
    /\ UNCHANGED <<creds, nextId, runs, wlog, now, rs, imp, ulog, sem, cache, auth, redis>>

callback_commit(cap, q, status, status3) ==
    LET r == cb[q]
        is_valid == CallbackValid(status)
        detected == DetectedTier(status, status3)
    IN
    /\ r.pc = "probing"
    /\ cb' = [cb EXCEPT ![q] = [pc |-> "idle"]]
    /\ UNCHANGED <<runs, now, rs, imp, ulog, sem, cache, auth, redis>>
    /\ IF r.existing # {}
       THEN LET c == CHOOSE x \in r.existing : TRUE IN
            /\ c \in Ids
            /\ creds' = [creds EXCEPT ![c].api_key = r.tok,
                                      ![c].refresh_token = encrypt_credential(r.refresh),
                                      ![c].project_id = r.project,
                                      ![c].is_active = is_valid]
            /\ Wrote(c, r.tok)
            /\ UNCHANGED nextId
            /\ last' = [op |-> "callback", status |-> "updated", id |-> c,
                        wantPublic |-> r.isPublic, is_valid |-> is_valid,
                        probe |-> status, probed |-> TRUE,
                        tier |-> detected.tier, resolved |-> r.project,
                        probed3 |-> detected.probed3, probe3 |-> status3,
                        reward |-> RewardQuota(FALSE, r.isPublic, is_valid, detected.tier),
                        user |-> r.user, email |-> r.email]
       ELSE /\ Cardinality(Ids) < cap
            /\ Insert(Row(r.user, r.email, r.refresh, r.isPublic, is_valid, r.tok,
                          r.project))
            /\ Created(r.tok)
            /\ nextId' = nextId + 1
            /\ last' = [op |-> "callback", status |-> "created", id |-> nextId,
                        wantPublic |-> r.isPublic, is_valid |-> is_valid,
                        probe |-> status, probed |-> TRUE,
                        tier |-> detected.tier, resolved |-> r.project,
                        probed3 |-> detected.probed3, probe3 |-> status3,
                        reward |-> RewardQuota(TRUE, r.isPublic, is_valid, detected.tier),
                        user |-> r.user, email |-> r.email]

----------------------------------------------------------------------------
(* GET /credentials *)

list_my_antigravity_credentials(u) ==
    /\ last' = [op |-> "list", status |-> 200, id |-> 0, user |-> u,
                ids |-> {c \in Ids : creds[c].user_id = u}]
    /\ UNCHANGED <<creds, nextId, runs, wlog, now, rs, imp, ulog, sem, cache, auth, redis, cb>>

----------------------------------------------------------------------------
(* PATCH /credentials/{cred_id}; is_public, is_active in {"unset","true","false"} *)

\* (variant: the is_active assignment made ahead of the is_public checks)
update_is_active_first(u, c, is_public, is_active) ==
    /\ UNCHANGED <<nextId, runs, wlog, now, rs, imp, ulog, sem, cache, auth, redis, cb>>
    /\ c \in Ids /\ creds[c].user_id = u
    /\ LET r0 == IF is_active = "unset" THEN creds[c]
                 ELSE [creds[c] EXCEPT !.is_active = (is_active = "true")]
           rejected == is_public = "true" /\
                       (~creds[c].is_active \/ HasAuthCode(creds[c].last_error))
       IN /\ creds' = [creds EXCEPT ![c] =
                          IF rejected \/ is_public = "unset" THEN r0
                          ELSE [r0 EXCEPT !.is_public = (is_public = "true")]]
          /\ last' = [op |-> "patch", status |-> IF rejected THEN 400 ELSE 200,
                      id |-> c, user |-> u,
                      is_public |-> is_public, is_active |-> is_active]

update_my_antigravity_credential(u, c, is_public, is_active) ==
    /\ UNCHANGED <<nextId, runs, wlog, now, rs, imp, ulog, sem, cache, auth, redis, cb>>
    /\ IF ~Owned(u, c)
       THEN /\ UNCHANGED creds
            /\ last' = [op |-> "patch", status |-> 404, id |-> c, user |-> u,
                        is_public |-> is_public, is_active |-> is_active]
       ELSE IF is_public = "true" /\
               (~creds[c].is_active \/ HasAuthCode(creds[c].last_error))
       THEN /\ UNCHANGED creds
            /\ last' = [op |-> "patch", status |-> 400, id |-> c, user |-> u,
                        is_public |-> is_public, is_active |-> is_active]
       ELSE LET r1 == IF is_public = "unset" THEN creds[c]
                      ELSE [creds[c] EXCEPT !.is_public = (is_public = "true")]
                r2 == IF is_active = "unset" THEN r1
                      ELSE [r1 EXCEPT !.is_active = (is_active = "true")]
            IN /\ creds' = [creds EXCEPT ![c] = r2]
               /\ last' = [op |-> "patch", status |-> 200, id |-> c, user |-> u,
                           is_public |-> is_public, is_active |-> is_active]

----------------------------------------------------------------------------
(* POST /credentials/{cred_id}/verify and POST /manage/credentials/{id}/verify *)

\* the row after the handler's commit, and what the handler answers
VerifyResult(row, tokOut, tok, m, resolved, status) ==
    LET project == IF resolved # NoProject THEN resolved ELSE row.project_id
        v == IF project # NoProject THEN VerifyVerdict(status, m)
             ELSE [is_valid |-> FALSE, error |-> ErrNoProject]
    IN
    IF tokOut = "raise"
    THEN [row |-> [row EXCEPT !.is_active = FALSE, !.last_error = ErrTokenExc(m)],
          is_valid |-> FALSE, error |-> ErrTokenExc(m), probed |-> FALSE]
    ELSE IF tokOut = "none"
    THEN [row |-> [row EXCEPT !.is_active = FALSE, !.last_error = ErrNoToken],
          is_valid |-> FALSE, error |-> ErrNoToken, probed |-> FALSE]
    ELSE [row |-> [row EXCEPT !.api_key = TokenAfter(row, tokOut, tok),
                              !.project_id = project,
                              !.is_active = v.is_valid,
                              !.last_error = v.error],
          is_valid |-> v.is_valid, error |-> v.error,
          probed |-> project # NoProject]

verify_my_antigravity_credential(u, c, tokOut, tok, m, resolved, status) ==
    /\ UNCHANGED <<nextId, runs, now, rs, imp, ulog, sem, cache, auth, redis, cb>>
    /\ IF ~Owned(u, c)
       THEN /\ UNCHANGED <<creds, wlog>>
            /\ last' = [op |-> "verify", status |-> "notfound", id |-> c, user |-> u]
       ELSE LET r == VerifyResult(creds[c], tokOut, tok, m, resolved, status) IN
            /\ creds' = [creds EXCEPT ![c] = r.row]
            /\ IF tokOut = "refreshed" THEN Wrote(c, tok) ELSE UNCHANGED wlog
            /\ last' = [op |-> "verify", status |-> "answered", id |-> c, user |-> u,
                        tokOut |-> tokOut, probed |-> r.probed, probe |-> status,
                        is_valid |-> r.is_valid, error |-> r.error]

\* the admin handler does not catch an exception of get_access_token: it
\* propagates before the handler has changed the row
admin_verify_antigravity_credential(c, tokOut, tok, m, resolved, status) ==
    /\ UNCHANGED <<nextId, runs, now, rs, imp, ulog, sem, cache, auth, redis, cb>>
    /\ IF c \notin Ids
       THEN /\ UNCHANGED <<creds, wlog>>
            /\ last' = [op |-> "admin_verify", status |-> "notfound", id |-> c]
       ELSE IF tokOut = "raise"
       THEN /\ UNCHANGED <<creds, wlog>>
            /\ last' = [op |-> "admin_verify", status |-> "raised", id |-> c,
                        tokOut |-> tokOut]
       ELSE LET r == VerifyResult(creds[c], tokOut, tok, m, resolved, status) IN
            /\ creds' = [creds EXCEPT ![c] = r.row]
            /\ IF tokOut = "refreshed" THEN Wrote(c, tok) ELSE UNCHANGED wlog
            /\ last' = [op |-> "admin_verify", status |-> "answered", id |-> c,
                        tokOut |-> tokOut, probed |-> r.probed, probe |-> status,
                        is_valid |-> r.is_valid, error |-> r.error]

----------------------------------------------------------------------------
(* POST /credentials/{cred_id}/refresh-project-id *)

refresh_antigravity_project_id(u, c, tokOut, tok, resolved) ==
    /\ UNCHANGED <<nextId, runs, now, rs, imp, ulog, sem, cache, auth, redis, cb>>
    /\ IF ~Owned(u, c)
       THEN /\ UNCHANGED <<creds, wlog>>
            /\ last' = [op |-> "refresh_project", status |-> "notfound", id |-> c, user |-> u]
       ELSE IF tokOut \in {"raise", "none"}
       THEN /\ UNCHANGED <<creds, wlog>>
            /\ last' = [op |-> "refresh_project", status |-> "answered", id |-> c, user |-> u,
                        success |-> FALSE, resolved |-> NoProject]
       ELSE /\ creds' = [creds EXCEPT
                            ![c].api_key = TokenAfter(creds[c], tokOut, tok),
                            ![c].project_id = IF resolved # NoProject THEN resolved ELSE @]
            /\ IF tokOut = "refreshed" THEN Wrote(c, tok) ELSE UNCHANGED wlog
            /\ last' = [op |-> "refresh_project", status |-> "answered", id |-> c, user |-> u,
                        success |-> resolved # NoProject, resolved |-> resolved]

----------------------------------------------------------------------------
(* What the rest of the application does to the two tables: credentials of  *)
(* another kind are stored in the same table, served requests are logged    *)

OtherKind == "geminicli"

OtherRow(u, email, act) ==
    [Row(u, email, email, FALSE, act, 0, "P") EXCEPT !.api_type = OtherKind]

Others == {c \in DOMAIN creds : creds[c].api_type # MODE}

other_kind_credential(cap, u, email, act) ==
    /\ Cardinality(Others) < cap
    /\ Insert(OtherRow(u, email, act))
    /\ Created(0)
    /\ nextId' = nextId + 1
    /\ last' = [op |-> "other_kind", status |-> "bg", id |-> nextId]
    /\ UNCHANGED <<runs, now, rs, imp, ulog, sem, cache, auth, redis, cb>>

\* UsageLog(credential_id = c) for a request served with credential c
log_usage(c) ==
    /\ c \in DOMAIN creds
    /\ Len(ulog) < MaxCreds
    /\ ulog' = Append(ulog, c)
    /\ last' = [op |-> "log_usage", status |-> "bg", id |-> c]
    /\ UNCHANGED <<creds, nextId, runs, wlog, now, rs, imp, sem, cache, auth, redis, cb>>

----------------------------------------------------------------------------
(* DELETE /credentials/{cred_id}, DELETE /credentials/inactive/batch,       *)
(* DELETE /manage/credentials/inactive                                      *)

delete_my_antigravity_credential(u, c) ==
    /\ UNCHANGED <<nextId, runs, wlog, now, rs, imp, sem, cache, auth, redis, cb>>
    /\ IF ~Owned(u, c)
       THEN /\ UNCHANGED <<creds, ulog>>
            /\ last' = [op |-> "delete", status |-> 404, id |-> c, user |-> u]
       ELSE /\ ulog' = Unlink({c})
            /\ creds' = Remove({c})
            /\ last' = [op |-> "delete", status |-> 200, id |-> c, user |-> u]

\* fewer than 100 rows are deleted, so the only commit is the last one; when
\* it fails the session is rolled back and the answer is the same
delete_my_inactive_antigravity_credentials(u, commit) ==
    LET inactive_creds == {c \in Ids : creds[c].user_id = u /\ ~creds[c].is_active} IN
    /\ UNCHANGED <<nextId, runs, wlog, now, rs, imp, sem, cache, auth, redis, cb>>
    /\ IF commit = "ok"
       THEN /\ ulog' = Unlink(inactive_creds)
            /\ creds' = Remove(inactive_creds)
       ELSE UNCHANGED <<creds, ulog>>
    /\ last' = [op |-> "delete_my_inactive", status |-> 200, id |-> 0, user |-> u,
                deleted_count |-> Cardinality(inactive_creds)]

delete_inactive_antigravity_credentials ==
    LET inactive_creds == {c \in Ids : ~creds[c].is_active} IN
    /\ UNCHANGED <<nextId, runs, wlog, now, rs, imp, sem, cache, auth, redis, cb>>
    /\ ulog' = Unlink(inactive_creds)
    /\ creds' = Remove(inactive_creds)
    /\ last' = [op |-> "delete_inactive", status |-> 200, id |-> 0,
                deleted_count |-> Cardinality(inactive_creds)]

----------------------------------------------------------------------------
(* GET /credentials/{cred_id}/export and GET /credentials/{cred_id}/quota *)

\* (variant: the project id left out of the export)
ExportedMut(row) ==
    [refresh_token |-> decrypt_credential(row.refresh_token),
     project_id |-> NoProject, email |-> row.email]

\* cred_data of the export: decrypt(...) if the column is set else ""
Exported(row) ==
    [refresh_token |-> IF row.refresh_token = encrypt_credential("") THEN ""
                       ELSE decrypt_credential(row.refresh_token),
     project_id |-> row.project_id, email |-> row.email]

NoDoc == [refresh_token |-> "", email |-> "", project_id |-> NoProject]

\* the call before this one was the import that created credential c
JustImported(c) ==
    last.op = "upload" /\ last.status \in {"success", "warning"} /\ last.id = c

\* history kept with the answer: the document, when c has just been imported
export_my_antigravity_credential(u, c) ==
    /\ UNCHANGED <<creds, nextId, runs, wlog, now, rs, imp, ulog, sem, cache, auth, redis, cb>>
    /\ IF ~Owned(u, c)
       THEN last' = [op |-> "export", status |-> 404, id |-> c, user |-> u]
       ELSE last' = [op |-> "export", status |-> 200, id |-> c, user |-> u,
                     cred_data |-> Exported(creds[c]),
                     just_imported |-> JustImported(c),
                     doc |-> IF JustImported(c) THEN last.doc ELSE NoDoc]

\* the quota request itself is made by AntigravityClient and changes no row
get_antigravity_credential_quota(u, c, tokOut, tok) ==
    /\ UNCHANGED <<nextId, runs, now, rs, imp, ulog, sem, cache, auth, redis, cb>>
    /\ IF ~Owned(u, c)
       THEN /\ UNCHANGED <<creds, wlog>>
            /\ last' = [op |-> "quota", status |-> 404, id |-> c, user |-> u]
       ELSE /\ creds' = [creds EXCEPT ![c].api_key = TokenAfter(creds[c], tokOut, tok)]
            /\ IF tokOut = "refreshed" THEN Wrote(c, tok) ELSE UNCHANGED wlog
            /\ last' = [op |-> "quota", status |-> 200, id |-> c, user |-> u,
                        success |-> tokOut \in {"cached", "refreshed"}]

----------------------------------------------------------------------------
(* POST /manage/credentials/{id}/toggle and /manage/credentials/batch-action *)

toggle_antigravity_credential(c) ==
    /\ UNCHANGED <<nextId, runs, wlog, now, rs, imp, ulog, sem, cache, auth, redis, cb>>
    /\ IF c \notin Ids
       THEN /\ UNCHANGED creds
            /\ last' = [op |-> "toggle", status |-> 404, id |-> c]
       ELSE /\ creds' = [creds EXCEPT ![c].is_active = ~creds[c].is_active]
            /\ last' = [op |-> "toggle", status |-> 200, id |-> c]

\* action in {"enable", "disable", "delete"}; ids a non-empty set of ids
batch_antigravity_credential_action(action, ids) ==
    /\ UNCHANGED <<nextId, runs, wlog, now, rs, imp, sem, cache, auth, redis, cb>>
    /\ action \in {"enable", "disable", "delete"}
    /\ ids # {}
    /\ LET sel == ids \cap Ids IN
       IF action = "delete"
       THEN /\ ulog' = Unlink(sel)
            /\ creds' = Remove(sel)
       ELSE /\ creds' = [c \in DOMAIN creds |->
                            IF c \in sel
                            THEN [creds[c] EXCEPT !.is_active = (action = "enable")]
                            ELSE creds[c]]
            /\ UNCHANGED ulog
    /\ last' = [op |-> "batch_action", status |-> 200, id |-> 0, action |-> action]

----------------------------------------------------------------------------
(* Background batch tasks: POST /manage/credentials/verify-all, start-all *)

RunIds == 1..MaxRuns

Idle == [kind |-> "idle", snap |-> <<>>, res |-> <<>>]

NoResult == [is_valid |-> FALSE, project_id |-> NoProject, token |-> 0]

\* (variant: the handler waits for the checks and their write-back, all of
\* them failing)
verify_all_awaited(r) ==
    /\ runs[r].kind = "idle"
    /\ creds' = [c \in DOMAIN creds |->
                    IF c \in Ids THEN [creds[c] EXCEPT !.is_active = FALSE] ELSE creds[c]]
    /\ runs' = [runs EXCEPT ![r] = [kind |-> "verify", snap |-> <<>>, res |-> <<>>]]
    /\ last' = [op |-> "verify_all", status |-> "started", id |-> 0, run |-> r,
                total |-> Cardinality(Ids)]
    /\ UNCHANGED <<nextId, wlog, now, rs, imp, ulog, sem, cache, auth, redis, cb>>

\* the handler: snapshot of the rows, task created, immediate answer
verify_all_antigravity_credentials(r) ==
    /\ runs[r].kind = "idle"
    /\ runs' = [runs EXCEPT ![r] = [kind |-> "verify",
                                    snap |-> [c \in Ids |-> creds[c].project_id],
                                    res |-> <<>>]]
    /\ last' = [op |-> "verify_all", status |-> "started", id |-> 0, run |-> r,
                total |-> Cardinality(Ids)]
    /\ UNCHANGED <<creds, nextId, wlog, now, rs, imp, ulog, sem, cache, auth, redis, cb>>

\* verify_single(data): what one credential's check returns
VerifySingle(snapProject, refreshOut, tok, resolved, status) ==
    LET project == IF snapProject # NoProject THEN snapProject ELSE resolved IN
    IF refreshOut # "refreshed" THEN NoResult
    ELSE IF project # NoProject /\ status = ProbeException THEN NoResult
    ELSE [is_valid |-> BatchValid(project, status), project_id |-> project,
          token |-> tok]

verify_single(r, c, refreshOut, tok, resolved, status) ==
    /\ runs[r].kind = "verify"
    /\ c \in DOMAIN runs[r].snap
    /\ c \notin DOMAIN runs[r].res
    /\ LET res == VerifySingle(runs[r].snap[c], refreshOut, tok, resolved, status) IN
       /\ runs' = [runs EXCEPT ![r].res =
                      [x \in DOMAIN runs[r].res \cup {c} |->
                          IF x = c THEN res ELSE runs[r].res[x]]]
       /\ wlog' = [wlog EXCEPT !.issued = @ \cup ({res.token} \ {0})]
       /\ last' = [op |-> "verify_single", status |-> "bg", id |-> c, run |-> r,
                   refreshOut |-> refreshOut, probe |-> status,
                   is_valid |-> res.is_valid]
    /\ UNCHANGED <<creds, nextId, now, rs, imp, ulog, sem, cache, auth, redis, cb>>

\* (variant: the token written only over the initial one)
VerifyAllUpdateMut(row, res) ==
    [row EXCEPT !.is_active = res.is_valid,
                !.project_id = IF res.project_id # NoProject THEN res.project_id ELSE @,
                !.api_key = IF res.token # 0 /\ row.api_key = 0 THEN res.token ELSE @]

\* update(Credential).where(id == res.id).values(**update_vals) for one result
VerifyAllUpdate(row, res) ==
    [row EXCEPT !.is_active = res.is_valid,
                !.project_id = IF res.project_id # NoProject THEN res.project_id ELSE @,
                !.api_key = IF res.token # 0 THEN res.token ELSE @]

\* (variant: a batch without a valid credential counted as one failure)
VerifyTallyMut(res) ==
    [succeeded |-> Cardinality({c \in DOMAIN res : res[c].is_valid}),
     failed |-> IF \E c \in DOMAIN res : res[c].is_valid
                THEN Cardinality({c \in DOMAIN res : ~res[c].is_valid})
                ELSE Cardinality({c \in DOMAIN res : ~res[c].is_valid}) + 1]

\* valid += 1 / invalid += 1 for every result of the write-back loop
VerifyTally(res) ==
    [succeeded |-> Cardinality({c \in DOMAIN res : res[c].is_valid}),
     failed |-> Cardinality({c \in DOMAIN res : ~res[c].is_valid})]

\* the write-back loop and its commit, once gather has every result. The one
\* commit is made after the loop; when it raises, the exception leaves the task
\* and no update is kept. A loop that issued no statement has nothing to commit
verify_all_write_back(r, commit) ==
    /\ runs[r].kind = "verify"
    /\ DOMAIN runs[r].res = DOMAIN runs[r].snap
    /\ commit = "fail" => DOMAIN runs[r].res # {}
    /\ IF commit = "ok"
       THEN /\ creds' = [c \in DOMAIN creds |->
                            IF c \in DOMAIN runs[r].res
                            THEN VerifyAllUpdate(creds[c], runs[r].res[c])
                            ELSE creds[c]]
            /\ wlog' = [wlog EXCEPT !.lastw =
                           [c \in Ids |->
                               IF c \in DOMAIN runs[r].res /\ runs[r].res[c].token # 0
                               THEN runs[r].res[c].token ELSE wlog.lastw[c]]]
            /\ last' = [op |-> "verify_all_done", status |-> "bg", id |-> 0, run |-> r,
                        res |-> runs[r].res, total |-> Cardinality(DOMAIN runs[r].snap),
                        succeeded |-> VerifyTally(runs[r].res).succeeded,
                        failed |-> VerifyTally(runs[r].res).failed]
       ELSE /\ UNCHANGED <<creds, wlog>>
            /\ last' = [op |-> "verify_all_raised", status |-> "bg", id |-> 0, run |-> r,
                        res |-> runs[r].res]
    /\ runs' = [runs EXCEPT ![r] = Idle]
    /\ UNCHANGED <<nextId, now, rs, imp, ulog, sem, cache, auth, redis, cb>>

start_all_antigravity_credentials(r) ==
    /\ runs[r].kind = "idle"
    /\ runs' = [runs EXCEPT ![r] = [kind |-> "start",
                                    snap |-> [c \in Ids |-> creds[c].project_id],
                                    res |-> <<>>]]
    /\ last' = [op |-> "start_all", status |-> "started", id |-> 0, run |-> r,
                total |-> Cardinality(Ids)]
    /\ UNCHANGED <<creds, nextId, wlog, now, rs, imp, ulog, sem, cache, auth, redis, cb>>

\* refresh_single(data): the token, or None after an exception
RefreshSingle(refreshOut, tok) ==
    [NoResult EXCEPT !.token = IF refreshOut = "refreshed" THEN tok ELSE 0]

refresh_single(r, c, refreshOut, tok) ==
    /\ runs[r].kind = "start"
    /\ c \in DOMAIN runs[r].snap
    /\ c \notin DOMAIN runs[r].res
    /\ LET res == RefreshSingle(refreshOut, tok) IN
       /\ runs' = [runs EXCEPT ![r].res =
                      [x \in DOMAIN runs[r].res \cup {c} |->
                          IF x = c THEN res ELSE runs[r].res[x]]]
       /\ wlog' = [wlog EXCEPT !.issued = @ \cup ({res.token} \ {0})]
       /\ last' = [op |-> "refresh_single", status |-> "bg", id |-> c, run |-> r,
                   refreshOut |-> refreshOut]
    /\ UNCHANGED <<creds, nextId, now, rs, imp, ulog, sem, cache, auth, redis, cb>>

\* .values(api_key=..., is_active=True, last_error=None) when a token came back
StartAllUpdate(row, res) ==
    IF res.token # 0
    THEN [row EXCEPT !.api_key = res.token, !.is_active = TRUE, !.last_error = NoError]
    ELSE row

\* success += 1 when a token came back and the update matched a row
\* (result.rowcount > 0), failed += 1 when no token came back
StartTally(res) ==
    [succeeded |-> Cardinality({c \in DOMAIN res : res[c].token # 0
                                                  /\ c \in DOMAIN creds}),
     failed |-> Cardinality({c \in DOMAIN res : res[c].token = 0})]

\* the write-back loop and its one commit; a statement is issued for every
\* result that has a token
start_all_write_back(r, commit) ==
    /\ runs[r].kind = "start"
    /\ DOMAIN runs[r].res = DOMAIN runs[r].snap
    /\ commit = "fail" => \E c \in DOMAIN runs[r].res : runs[r].res[c].token # 0
    /\ IF commit = "ok"
       THEN /\ creds' = [c \in DOMAIN creds |->
                            IF c \in DOMAIN runs[r].res
                            THEN StartAllUpdate(creds[c], runs[r].res[c])
                            ELSE creds[c]]
            /\ wlog' = [wlog EXCEPT !.lastw =
                           [c \in Ids |->
                               IF c \in DOMAIN runs[r].res /\ runs[r].res[c].token # 0
                               THEN runs[r].res[c].token ELSE wlog.lastw[c]]]
            /\ last' = [op |-> "start_all_done", status |-> "bg", id |-> 0, run |-> r,
                        res |-> runs[r].res, total |-> Cardinality(DOMAIN runs[r].snap),
                        succeeded |-> StartTally(runs[r].res).succeeded,
                        failed |-> StartTally(runs[r].res).failed]
       ELSE /\ UNCHANGED <<creds, wlog>>
            /\ last' = [op |-> "start_all_raised", status |-> "bg", id |-> 0, run |-> r,
                        res |-> runs[r].res]
    /\ runs' = [runs EXCEPT ![r] = Idle]
    /\ UNCHANGED <<nextId, now, rs, imp, ulog, sem, cache, auth, redis, cb>>

----------------------------------------------------------------------------
(* Cooldown and pool selection *)

\* instants below one second: the ticks of a second
TicksPerSecond == 2

\* the last instant, in ticks, at which the cooldown is computed
MaxTicks == 6

\* int(x) of Python for x = n / d, d > 0: truncation toward zero
IntDiv(n, d) == IF n >= 0 THEN n \div d ELSE -((-n) \div d)

\* (variant: the truncated difference returned as it is)
CdRemainingMut(last_used, cd_seconds, t) ==
    IF last_used < 0 \/ cd_seconds <= 0 THEN 0
    ELSE IntDiv(last_used + cd_seconds * TicksPerSecond - t, TicksPerSecond)

\* get_cd_remaining with its closure variable now as t; last_used and t in
\* ticks, last_used < 0 for None:
\* max(0, int((last_used + timedelta(seconds=cd_seconds) - now).total_seconds()))
CdRemaining(last_used, cd_seconds, t) ==
    IF last_used < 0 \/ cd_seconds <= 0 THEN 0
    ELSE LET remaining == IntDiv(last_used + cd_seconds * TicksPerSecond - t,
                                 TicksPerSecond)
         IN  IF remaining > 0 THEN remaining ELSE 0

\* get_cd_remaining(last_used, cd_seconds) at the handler's now, whole seconds
get_cd_remaining(last_used, cd_seconds) ==
    CdRemaining(IF last_used < 0 THEN last_used ELSE last_used * TicksPerSecond,
                cd_seconds, now * TicksPerSecond)

\* the function applied to one credential's last_used at two instants
cd_remaining_twice(last_used, cd_seconds, t1, t2) ==
    /\ t1 <= t2
    /\ last' = [op |-> "get_cd_remaining", status |-> 200, id |-> 0,
                last_used |-> last_used, cd_seconds |-> cd_seconds,
                t1 |-> t1, t2 |-> t2,
                r1 |-> CdRemaining(last_used, cd_seconds, t1),
                r2 |-> CdRemaining(last_used, cd_seconds, t2)]
    /\ UNCHANGED <<creds, nextId, runs, wlog, now, rs, imp, ulog, sem, cache, auth, redis, cb>>

Remaining(c) == get_cd_remaining(creds[c].last_used_at, CooldownSeconds)

\* (variant: is_active not consulted)
EligibleMut(u, row) == row.user_id = u \/ row.is_public

\* is_active AND (owner = requesting user OR is_public)
Eligible(u, row) == row.is_active /\ (row.user_id = u \/ row.is_public)

Candidates(u) == {c \in Ids : Eligible(u, creds[c])}

\* (variant: any eligible credential, cooldown not consulted)
SelectFromMut(cands) == cands

\* zero remaining cooldown preferred, else the smallest remaining cooldown
SelectFrom(cands) ==
    IF \E c \in cands : Remaining(c) = 0
    THEN {c \in cands : Remaining(c) = 0}
    ELSE {c \in cands : \A d \in cands : Remaining(c) <= Remaining(d)}

\* Pool.select(requesting_user): result 0 is "no credential available"
pool_select(u) ==
    /\ \E c \in (IF Candidates(u) = {} THEN {0} ELSE SelectFrom(Candidates(u))) :
          last' = [op |-> "select", status |-> "answered", id |-> c, user |-> u]
    /\ UNCHANGED <<creds, nextId, runs, wlog, now, rs, imp, ulog, sem, cache, auth, redis, cb>>

\* a served request stamps the credential it used
record_usage(c) ==
    /\ c \in Ids
    /\ creds' = [creds EXCEPT ![c].last_used_at = now]
    /\ last' = [op |-> "use", status |-> "bg", id |-> c]
    /\ UNCHANGED <<nextId, runs, wlog, now, rs, imp, ulog, sem, cache, auth, redis, cb>>

Tick ==
    /\ now < MaxNow
    /\ now' = now + 1
    /\ last' = [op |-> "tick", status |-> "bg", id |-> 0]
    /\ UNCHANGED <<creds, nextId, runs, wlog, rs, imp, ulog, sem, cache, auth, redis, cb>>

----------------------------------------------------------------------------
(* fetch_antigravity_project_id(access_token): the project id resolver.     *)
(* One action per upstream call; rs holds the answers received so far.      *)

MaxTiers == 2

MaxAttempts == 5

TierIds == {"", "T1", "T2"}

TierLists == UNION {[1..n -> [isDefault : BOOLEAN, id : TierIds]] : n \in 0..MaxTiers}

\* An answer of loadCodeAssist. status 0: the call raised; parsed = FALSE: the
\* body is not a JSON object of the expected shape (json() or .get raises);
\* currentTier / project "": the field is missing, null or empty
LoadResponse(status, parsed, currentTier, project, allowedTiers) ==
    [status |-> status, parsed |-> parsed, currentTier |-> currentTier,
     project |-> project, allowedTiers |-> allowedTiers]

FailedLoads ==
    {LoadResponse(st, FALSE, "", "", <<>>) : st \in {ProbeException, 500, 200}}

PrimaryResponses ==
    FailedLoads \cup
    {LoadResponse(200, TRUE, t, p, <<>>) : t \in {"", "FREE"}, p \in {"", "P"}}

TierResponses ==
    FailedLoads \cup {LoadResponse(200, TRUE, "", "", l) : l \in TierLists}

\* An answer of onboardUser. shape: what response.cloudaicompanionProject is:
\* "string", "object" (id "" when the object has no id, or when the field or
\* the response is missing: the default {}), "other" (number, list, null)
OnboardResponse(status, parsed, done, shape, id) ==
    [status |-> status, parsed |-> parsed, done |-> done, shape |-> shape, id |-> id]

OnboardResponses ==
    {OnboardResponse(st, FALSE, FALSE, "other", "") : st \in {ProbeException, 500, 200}}
    \cup {OnboardResponse(200, TRUE, FALSE, "other", "")}
    \cup {OnboardResponse(200, TRUE, TRUE, sh, id) :
             sh \in {"string", "object"}, id \in {"", "P"}}
    \cup {OnboardResponse(200, TRUE, TRUE, "other", "")}

Outcome(pc, result) == [pc |-> pc, result |-> result]

\* (variant: the project id taken without looking at currentTier, and an
\* exception of the call not caught)
PrimaryOutcomeMut(resp) ==
    IF resp.status = ProbeException THEN Outcome("raised", NoProject)
    ELSE IF resp.status = 200 /\ resp.parsed /\ resp.project # ""
    THEN Outcome("returned", resp.project)
    ELSE Outcome("tier", NoProject)

\* (variant: the currentTier test inverted)
PrimaryOutcomeInv(resp) ==
    IF resp.status = 200 /\ resp.parsed /\ resp.currentTier = "" /\ resp.project # ""
    THEN Outcome("returned", resp.project)
    ELSE Outcome("tier", NoProject)

\* step 1: the id is returned when the answer is 200, currentTier is set and
\* cloudaicompanionProject is set; everything else, an exception included,
\* falls through to step 2
PrimaryOutcome(resp) ==
    IF resp.status = 200 /\ resp.parsed /\ resp.currentTier # "" /\ resp.project # ""
    THEN Outcome("returned", resp.project)
    ELSE Outcome("tier", NoProject)

Min(S) == CHOOSE x \in S : \A y \in S : x <= y

Max(S) == CHOOSE x \in S : \A y \in S : x >= y

\* (variant: the last tier flagged default)
get_onboard_tier_last(resp) ==
    IF resp.status = 200 /\ resp.parsed
    THEN LET d == {i \in DOMAIN resp.allowedTiers : resp.allowedTiers[i].isDefault} IN
         IF d = {} THEN "LEGACY" ELSE resp.allowedTiers[Max(d)].id
    ELSE ""

\* _get_onboard_tier: the id of the first tier flagged default, "LEGACY" when
\* none is, "" (None) when the call fails
get_onboard_tier(resp) ==
    IF resp.status = 200 /\ resp.parsed
    THEN LET d == {i \in DOMAIN resp.allowedTiers : resp.allowedTiers[i].isDefault} IN
         IF d = {} THEN "LEGACY" ELSE resp.allowedTiers[Min(d)].id
    ELSE ""

\* (variant: only the object encoding understood)
ExtractProjectMut(resp) ==
    IF resp.shape = "object" THEN resp.id ELSE NoProject

\* the project id of a done answer: dict -> its id, str -> itself, else None
ExtractProject(resp) ==
    IF resp.shape = "object" THEN resp.id
    ELSE IF resp.shape = "string" THEN resp.id
    ELSE NoProject

\* (variant: one more attempt than range(5) makes)
PollOutcomeMut(attempt, resp) ==
    IF resp.status = 200 /\ resp.parsed
    THEN IF resp.done
         THEN Outcome("returned", ExtractProject(resp))
         ELSE Outcome(IF attempt <= MaxAttempts THEN "onboard" ELSE "returned", NoProject)
    ELSE Outcome("returned", NoProject)

\* one pass of the polling loop, attempt = 1..5: a done answer ends the loop
\* with the extracted id (or None), a non-200 answer or an exception ends it
\* with None, a not-done answer goes on to the next attempt if there is one
PollOutcome(attempt, resp) ==
    IF resp.status = 200 /\ resp.parsed
    THEN IF resp.done
         THEN Outcome("returned", ExtractProject(resp))
         ELSE Outcome(IF attempt < MaxAttempts THEN "onboard" ELSE "returned", NoProject)
    ELSE Outcome("returned", NoProject)

NotResolving ==
    [pc |-> "idle", load |-> <<>>, tier |-> <<>>, tier_id |-> "", polls |-> <<>>,
     result |-> NoProject]

\* the call, up to the answer of the primary probe
fetch_antigravity_project_id(resp) ==
    /\ rs.pc \in {"idle", "returned"}
    /\ LET o == PrimaryOutcome(resp) IN
       rs' = [NotResolving EXCEPT !.pc = o.pc, !.load = <<resp>>, !.result = o.result]
    /\ UNCHANGED <<creds, nextId, last, runs, wlog, now, imp, ulog, sem, cache, auth, redis, cb>>

\* step 2 starts: the tier discovery call; without a tier id the resolver
\* returns None
onboard_tier_call(resp) ==
    /\ rs.pc = "tier"
    /\ LET t == get_onboard_tier(resp) IN
       rs' = [rs EXCEPT !.pc = IF t = "" THEN "returned" ELSE "onboard",
                        !.tier = <<resp>>, !.tier_id = t]
    /\ UNCHANGED <<creds, nextId, last, runs, wlog, now, imp, ulog, sem, cache, auth, redis, cb>>

\* one onboardUser call of the polling loop and what the loop does with it
onboard_user_attempt(resp) ==
    /\ rs.pc = "onboard"
    /\ LET o == PollOutcome(Len(rs.polls) + 1, resp) IN
       rs' = [rs EXCEPT !.pc = o.pc, !.result = o.result,
                        !.polls = Append(@, [tierId |-> rs.tier_id, resp |-> resp])]
    /\ UNCHANGED <<creds, nextId, last, runs, wlog, now, imp, ulog, sem, cache, auth, redis, cb>>

----------------------------------------------------------------------------
(* A background batch seen through its semaphore *)

\* asyncio.Semaphore(30) of verify-all, asyncio.Semaphore(50) of start-all
VerifyLimit == 30
StartLimit == 50

\* the largest snapshot of a run
MaxTasks == 52

\* no run: the counters of the per-credential coroutines of one run, by
\* position: before `async with semaphore`, inside it, returned
NoBatch == [kind |-> "idle", total |-> 0, waiting |-> 0, active |-> 0, done |-> 0]

Limit(kind) == IF kind = "verify" THEN VerifyLimit ELSE StartLimit

\* (variant: a semaphore that never blocks)
SemaphoreFreeMut(s) == TRUE

\* Semaphore.acquire returns at once only while its value is positive
SemaphoreFree(s) == s.active < Limit(s.kind)

\* run_in_background: gather() creates one coroutine per snapshot entry; each
\* starts at its `async with semaphore`
run_in_background(kind, n) ==
    /\ sem.kind = "idle"
    /\ sem' = [kind |-> kind, total |-> n, waiting |-> n, active |-> 0, done |-> 0]
    /\ UNCHANGED <<creds, nextId, last, runs, wlog, now, rs, imp, ulog, cache, auth, redis, cb>>

\* one coroutine enters the semaphore and starts its upstream calls
semaphore_acquire ==
    /\ sem.kind # "idle"
    /\ sem.waiting > 0
    /\ SemaphoreFree(sem)
    /\ sem' = [sem EXCEPT !.waiting = @ - 1, !.active = @ + 1]
    /\ UNCHANGED <<creds, nextId, last, runs, wlog, now, rs, imp, ulog, cache, auth, redis, cb>>

\* one coroutine, any of those inside, returns or raises inside its try and
\* leaves the `async with`
semaphore_release ==
    /\ sem.kind # "idle"
    /\ sem.active > 0
    /\ sem' = [sem EXCEPT !.active = @ - 1, !.done = @ + 1]
    /\ UNCHANGED <<creds, nextId, last, runs, wlog, now, rs, imp, ulog, cache, auth, redis, cb>>

\* gather() returns once every coroutine has
gather_returns ==
    /\ sem.kind # "idle"
    /\ sem.done = sem.total
    /\ sem' = NoBatch
    /\ UNCHANGED <<creds, nextId, last, runs, wlog, now, rs, imp, ulog, cache, auth, redis, cb>>

----------------------------------------------------------------------------
(* SimpleCache (app/cache.py) over RedisService *)

\* keys as <<prefix, rest>>, so that startswith(prefix) is a comparison
Keys == {<<"stats", "a">>, <<"stats", "b">>, <<"user", "a">>, <<"user", "b">>}
Prefixes == {"stats", "user"}
Values == {[v |-> "v1"], [v |-> "v2"]}
TTLs == {30, 60}

\* no entry of a map
None == [none |-> TRUE]
NoExpiry == -1

\* SimpleCache(): both maps empty; the remote store reachable or not
EmptyCache ==
    [_memory_cache |-> [k \in Keys |-> None],
     _memory_expires |-> [k \in Keys |-> NoExpiry],
     remote |-> "up"]

\* (variant: the call fails whenever the remote store is unreachable)
CoroutineCallRaisesMut(remote) == remote = "down"

\* get_json, set_json and delete of RedisService are `async def`: calling one
\* without await builds a coroutine object and runs none of its body, so
\* the call itself raises nothing, whatever the state of the remote store
CoroutineCallRaises(remote) == FALSE

\* what such a call returns
Coroutine == [coroutine |-> TRUE]

\* redis_service has no get_keys: the attribute lookup raises AttributeError
GetKeysRaises == TRUE

startswith(k, prefix) == k[1] = prefix

\* SimpleCache.get(key) on cache c at time t: the value returned and the
\* cache afterwards
SimpleCacheGet(c, key, t) ==
    LET raised == CoroutineCallRaises(c.remote)
        result == IF raised THEN None ELSE Coroutine
        expired == /\ c._memory_expires[key] # NoExpiry
                   /\ t > c._memory_expires[key]
    IN  IF result # None THEN [result |-> result, cache |-> c]
        ELSE IF c._memory_cache[key] = None THEN [result |-> None, cache |-> c]
        ELSE IF expired
        THEN [result |-> None,
              cache |-> [c EXCEPT !._memory_cache[key] = None,
                                  !._memory_expires[key] = NoExpiry]]
        ELSE [result |-> c._memory_cache[key], cache |-> c]

\* SimpleCache.set(key, value, ttl): the local maps are written in the except
\* branch only
SimpleCacheSet(c, key, value, ttl, t) ==
    IF CoroutineCallRaises(c.remote)
    THEN [c EXCEPT !._memory_cache[key] = value, !._memory_expires[key] = t + ttl]
    ELSE c

\* SimpleCache.delete(key)
SimpleCacheDelete(c, key) ==
    [c EXCEPT !._memory_cache[key] = None, !._memory_expires[key] = NoExpiry]

\* cache.get(key)
cache_get(key) ==
    /\ last' = [op |-> "cache_get", status |-> "returned", id |-> 0, key |-> key,
                result |-> SimpleCacheGet(cache, key, now).result, raised |-> FALSE,
                remote |-> cache.remote, at |-> now]
    /\ cache' = SimpleCacheGet(cache, key, now).cache
    /\ UNCHANGED <<creds, nextId, runs, wlog, now, rs, imp, ulog, sem, auth, redis, cb>>

\* cache.set(key, value, ttl)
cache_set(key, value, ttl) ==
    /\ cache' = SimpleCacheSet(cache, key, value, ttl, now)
    /\ last' = [op |-> "cache_set", status |-> "returned", id |-> 0, key |-> key,
                value |-> value, ttl |-> ttl, raised |-> FALSE,
                remote |-> cache.remote, at |-> now]
    /\ UNCHANGED <<creds, nextId, runs, wlog, now, rs, imp, ulog, sem, auth, redis, cb>>

\* cache.delete(key)
cache_delete(key) ==
    /\ cache' = SimpleCacheDelete(cache, key)
    /\ last' = [op |-> "cache_delete", status |-> "returned", id |-> 0, key |-> key,
                raised |-> FALSE, remote |-> cache.remote, at |-> now]
    /\ UNCHANGED <<creds, nextId, runs, wlog, now, rs, imp, ulog, sem, auth, redis, cb>>

\* cache.clear(): the AttributeError of get_keys is caught, both maps emptied
cache_clear ==
    /\ cache' = [cache EXCEPT !._memory_cache = [k \in Keys |-> None],
                              !._memory_expires = [k \in Keys |-> NoExpiry]]
    /\ last' = [op |-> "cache_clear", status |-> "returned", id |-> 0,
                caught |-> GetKeysRaises, raised |-> FALSE,
                remote |-> cache.remote, at |-> now]
    /\ UNCHANGED <<creds, nextId, runs, wlog, now, rs, imp, ulog, sem, auth, redis, cb>>

\* cache.clear_prefix(prefix)
cache_clear_prefix(prefix) ==
    /\ cache' = [cache EXCEPT
                    !._memory_cache = [k \in Keys |->
                        IF startswith(k, prefix) THEN None ELSE @[k]],
                    !._memory_expires = [k \in Keys |->
                        IF startswith(k, prefix) /\ cache._memory_cache[k] # None
                        THEN NoExpiry ELSE @[k]]]
    /\ last' = [op |-> "cache_clear_prefix", status |-> "returned", id |-> 0,
                prefix |-> prefix, caught |-> GetKeysRaises, raised |-> FALSE,
                remote |-> cache.remote, at |-> now]
    /\ UNCHANGED <<creds, nextId, runs, wlog, now, rs, imp, ulog, sem, auth, redis, cb>>

\* the remote store becomes unreachable, or reachable again
remote_store(state) ==
    /\ cache.remote # state
    /\ cache' = [cache EXCEPT !.remote = state]
    /\ last' = [op |-> "remote", status |-> state, id |-> 0]
    /\ UNCHANGED <<creds, nextId, runs, wlog, now, rs, imp, ulog, sem, auth, redis, cb>>

----------------------------------------------------------------------------
(* API-key authentication (app/services/auth.py) over the cache *)

\* the store before any account: one user row and one API-key row, absent;
\* handed is history: the record last passed to cache.set by
\* get_user_by_api_key
NoAccounts ==
    [user |-> [exists |-> FALSE, is_active |-> FALSE, daily_quota |-> 0],
     key |-> [exists |-> FALSE, is_active |-> FALSE, last_used_at |-> -1],
     handed |-> None]

\* ttl of the cached user record
UserCacheTTL == 3600

\* cache_key of the API key: CACHE_KEYS['user'] + ":api_key:" + api_key
ApiKeyCacheKey == <<"user", "a">>

\* user_dict: the fields of the user row (those the model keeps)
UserDict(u) == [id |-> 1, is_active |-> u.is_active, daily_quota |-> u.daily_quota]

\* (variant: no value is recognised as an awaitable)
IsAwaitableMut(v) == FALSE

\* callable(getattr(v, "__await__", None))
IsAwaitable(v) == v = Coroutine

\* User(id=d["id"], ...) succeeds: d is a mapping with the fields of a user
IsUserDict(v) == "id" \in DOMAIN v

\* the store: an account with its API key is created, a user is disabled or
\* enabled, its quota changed, the API key deactivated or reactivated
create_user(active, quota) ==
    /\ ~auth.user.exists
    /\ auth' = [auth EXCEPT
                   !.user = [exists |-> TRUE, is_active |-> active, daily_quota |-> quota],
                   !.key = [exists |-> TRUE, is_active |-> TRUE, last_used_at |-> -1]]
    /\ last' = [op |-> "create_user", status |-> 200, id |-> 0]
    /\ UNCHANGED <<creds, nextId, runs, wlog, now, rs, imp, ulog, sem, cache, redis, cb>>

update_user(active, quota) ==
    /\ auth.user.exists
    /\ <<active, quota>> # <<auth.user.is_active, auth.user.daily_quota>>
    /\ auth' = [auth EXCEPT !.user.is_active = active, !.user.daily_quota = quota]
    /\ last' = [op |-> "update_user", status |-> 200, id |-> 0]
    /\ UNCHANGED <<creds, nextId, runs, wlog, now, rs, imp, ulog, sem, cache, redis, cb>>

update_api_key(active) ==
    /\ auth.key.exists
    /\ active # auth.key.is_active
    /\ auth' = [auth EXCEPT !.key.is_active = active]
    /\ last' = [op |-> "update_api_key", status |-> 200, id |-> 0]
    /\ UNCHANGED <<creds, nextId, runs, wlog, now, rs, imp, ulog, sem, cache, redis, cb>>

\* get_user_by_api_key(db, api_key)
get_user_by_api_key ==
    LET got == SimpleCacheGet(cache, ApiKeyCacheKey, now)
        found == got.result
        hit == found # None /\ ~IsAwaitable(found) /\ IsUserDict(found)
        c1 == IF found # None /\ ~hit
              THEN SimpleCacheDelete(got.cache, ApiKeyCacheKey) ELSE got.cache
        keyOk == auth.key.exists /\ auth.key.is_active
    IN  /\ IF hit
           THEN /\ cache' = c1
                /\ UNCHANGED auth
                /\ last' = [op |-> "get_user_by_api_key", status |-> "returned", id |-> 0,
                            found |-> found, from |-> "cache", result |-> found,
                            handed |-> auth.handed]
           ELSE IF keyOk /\ auth.user.exists
           THEN /\ cache' = SimpleCacheSet(c1, ApiKeyCacheKey, UserDict(auth.user),
                                           UserCacheTTL, now)
                /\ auth' = [auth EXCEPT !.key.last_used_at = now,
                                         !.handed = UserDict(auth.user)]
                /\ last' = [op |-> "get_user_by_api_key", status |-> "returned", id |-> 0,
                            found |-> found, from |-> "source",
                            result |-> UserDict(auth.user), handed |-> auth.handed]
           ELSE /\ cache' = c1
                /\ auth' = [auth EXCEPT !.key.last_used_at = IF keyOk THEN now ELSE @]
                /\ last' = [op |-> "get_user_by_api_key", status |-> "returned", id |-> 0,
                            found |-> found, from |-> "source", result |-> None,
                            handed |-> auth.handed]
        /\ UNCHANGED <<creds, nextId, runs, wlog, now, rs, imp, ulog, sem, redis, cb>>

\* cached(prefix, ttl)(func)(...): wrapper; fresh is what func returns
cached(key, ttl, fresh) ==
    LET got == SimpleCacheGet(cache, key, now)
        found == got.result
        hit == found # None /\ ~IsAwaitable(found)
        c1 == IF found # None /\ ~hit THEN SimpleCacheDelete(got.cache, key) ELSE got.cache
    IN  /\ IF hit
           THEN /\ cache' = got.cache
                /\ last' = [op |-> "cached", status |-> "returned", id |-> 0, key |-> key,
                            found |-> found, from |-> "cache", result |-> found]
           ELSE /\ cache' = IF IsAwaitable(fresh) THEN c1
                            ELSE SimpleCacheSet(c1, key, fresh, ttl, now)
                /\ last' = [op |-> "cached", status |-> "returned", id |-> 0, key |-> key,
                            found |-> found, from |-> "source", result |-> fresh]
        /\ UNCHANGED <<creds, nextId, runs, wlog, now, rs, imp, ulog, sem, auth, redis, cb>>

----------------------------------------------------------------------------
(* RedisService (app/services/redis_service.py) in memory-fallback mode *)

RedisKeys == {"k1", "k2"}

\* the last instant of time.time() in the model
MaxClock == 3

\* expire arguments: none (None or 0, both falsy) or a number of seconds
Expires == {0, 1}

\* RedisService(): not connected, both fallback maps empty. clock is
\* time.time(); written is history: per key the arguments and instant of the
\* last set, None before any and after a delete
NewRedisService ==
    [connected |-> FALSE,
     memory_cache |-> [k \in RedisKeys |-> None],
     memory_expires |-> [k \in RedisKeys |-> NoExpiry],
     clock |-> 0,
     written |-> [k \in RedisKeys |-> None]]

\* RedisService.get(key), not connected
redis_get(key) ==
    /\ ~redis.connected
    /\ IF redis.memory_expires[key] # NoExpiry /\ redis.clock > redis.memory_expires[key]
       THEN /\ redis' = [redis EXCEPT !.memory_cache[key] = None,
                                      !.memory_expires[key] = NoExpiry]
            /\ last' = [op |-> "redis_get", status |-> "returned", id |-> 0,
                        key |-> key, result |-> None]
       ELSE /\ UNCHANGED redis
            /\ last' = [op |-> "redis_get", status |-> "returned", id |-> 0,
                        key |-> key, result |-> redis.memory_cache[key]]
    /\ UNCHANGED <<creds, nextId, runs, wlog, now, rs, imp, ulog, sem, cache, auth, cb>>

\* RedisService.set(key, value, expire), not connected
redis_set(key, value, expire) ==
    /\ ~redis.connected
    /\ redis' = [redis EXCEPT
                    !.memory_cache[key] = value,
                    !.memory_expires[key] = IF expire # 0 THEN redis.clock + expire ELSE @,
                    !.written[key] = [value |-> value, expire |-> expire,
                                      at |-> redis.clock]]
    /\ last' = [op |-> "redis_set", status |-> "returned", id |-> 0, key |-> key,
                result |-> TRUE]
    /\ UNCHANGED <<creds, nextId, runs, wlog, now, rs, imp, ulog, sem, cache, auth, cb>>

\* RedisService.delete(key), not connected
redis_delete(key) ==
    /\ ~redis.connected
    /\ redis' = [redis EXCEPT !.memory_cache[key] = None,
                              !.memory_expires[key] = NoExpiry,
                              !.written[key] = None]
    /\ last' = [op |-> "redis_delete", status |-> "returned", id |-> 0, key |-> key,
                result |-> TRUE]
    /\ UNCHANGED <<creds, nextId, runs, wlog, now, rs, imp, ulog, sem, cache, auth, cb>>

\* time passes
redis_clock ==
    /\ redis.clock < MaxClock
    /\ redis' = [redis EXCEPT !.clock = @ + 1]
    /\ last' = [op |-> "tick", status |-> "bg", id |-> 0]
    /\ UNCHANGED <<creds, nextId, runs, wlog, now, rs, imp, ulog, sem, cache, auth, cb>>

----------------------------------------------------------------------------
(* Specifications *)

Init ==
    /\ creds = <<>>
    /\ nextId = 1
    /\ last = [op |-> "init", status |-> "bg", id |-> 0]
    /\ runs = [r \in RunIds |-> Idle]
    /\ wlog = [lastw |-> <<>>, issued |-> {}]
    /\ now = 0
    /\ rs = NotResolving
    /\ imp = NotImporting
    /\ ulog = <<>>
    /\ sem = NoBatch
    /\ cache = EmptyCache
    /\ auth = NoAccounts
    /\ redis = NewRedisService
    /\ cb = NoRequests

CredIds == 1..MaxCreds

Tri == {"unset", "true", "false"}

M0 == [len |-> 7, at |-> 0]

\* Upstream outcomes of one verification: get_access_token, the resolver, the
\* probe, the exception text; an outcome the handler never reaches is left at
\* its first value
VerifyInputs ==
    {i \in [tokOut : TokenOutcomes, m : ExcMsgs, resolved : ResolverOutcomes,
            status : ProbeOutcomes] :
        /\ i.tokOut \in {"none", "raise"} => i.resolved = NoProject /\ i.status = 200
        /\ i.tokOut = "none" => i.m = M0
        /\ i.tokOut \in {"cached", "refreshed"} /\ i.status # ProbeException => i.m = M0}

\* Upstream outcomes of one imported file. A refresh token is named by the
\* account that issued it: the file of account "a" carries the token "a"
UploadInputs ==
    {i \in [hasRefresh : BOOLEAN, tokOut : TokenOutcomes \ {"refreshed"},
            fileProj : ResolverOutcomes, resolved : ResolverOutcomes,
            status : ProbeOutcomes] :
        /\ ~i.hasRefresh => i.tokOut = "cached" /\ i.fileProj = NoProject
        /\ i.tokOut # "cached" \/ i.fileProj # NoProject \/ ~i.hasRefresh
              => i.resolved = NoProject
        /\ ~UploadValid(i.tokOut, i.fileProj, 200) /\ i.resolved = NoProject
              => i.status = 200}

\* Upstream outcomes of one OAuth callback
CallbackInputs ==
    {i \in [exchange : {"ok", "error"}, resolved : ResolverOutcomes,
            status : ProbeOutcomes, status3 : {200, 429, 403, ProbeException}] :
        /\ i.exchange = "error" => i.resolved = NoProject /\ i.status = 200
        /\ ~(i.exchange = "ok" /\ i.status \in {200, 429}) => i.status3 = 200}

upload(cap, users, emails, publics, inputs) ==
    \E u \in users, email \in emails, isPublic \in publics, i \in inputs :
        upload_antigravity_credentials(cap, u, IF i.hasRefresh THEN email ELSE "",
                                       email, email, isPublic, FALSE,
                                       i.fileProj, i.tokOut, i.resolved, i.status)

callback(cap, users, emails, toks) ==
    \E u \in users, email \in emails, isPublic \in BOOLEAN, tok \in toks,
       i \in CallbackInputs :
        antigravity_credential_from_callback_url(cap, u, i.exchange, email, email,
                                                 isPublic, tok, i.resolved, i.status,
                                                 i.status3)

patch ==
    \E u \in Users, c \in CredIds, is_public \in Tri, is_active \in Tri :
        update_my_antigravity_credential(u, c, is_public, is_active)

verify(toks, inputs) ==
    \E u \in Users, c \in CredIds, tok \in toks, i \in inputs :
        verify_my_antigravity_credential(u, c, i.tokOut, tok, i.m, i.resolved, i.status)

admin_verify(toks, inputs) ==
    \E c \in CredIds, tok \in toks, i \in inputs :
        admin_verify_antigravity_credential(c, i.tokOut, tok, i.m, i.resolved, i.status)

\* Upstream outcomes of one project id refresh
RefreshInputs ==
    {i \in [tokOut : TokenOutcomes, resolved : ResolverOutcomes] :
        i.tokOut \in {"none", "raise"} => i.resolved = NoProject}

refresh_project(toks) ==
    \E u \in Users, c \in CredIds, tok \in toks, i \in RefreshInputs :
        refresh_antigravity_project_id(u, c, i.tokOut, tok, i.resolved)

toggle == \E c \in CredIds : toggle_antigravity_credential(c)

batch_action ==
    \E action \in {"enable", "disable"}, ids \in SUBSET Ids :
        batch_antigravity_credential_action(action, ids)

\* Every request handler, followed on one credential: u1 creates it, u1 and
\* u2 and the administrator address it
Next ==
    \/ upload(MaxCreds, {"u1"}, {"a"}, BOOLEAN, UploadInputs)
    \/ callback(MaxCreds, {"u1"}, {"a"}, {1})
    \/ patch
    \/ verify({1}, VerifyInputs)
    \/ admin_verify({1}, VerifyInputs)
    \/ refresh_project({1})
    \/ toggle
    \/ batch_action

Spec == Init /\ [][Next]_vars

----------------------------------------------------------------------------
(* The pool: several credentials of several owners, use and cooldown *)

EmailSeq == <<"a", "b", "c", "d">>

\* imports whose probe answers: valid (200) or invalid (500)
ProbedUploads ==
    {i \in UploadInputs : i.hasRefresh /\ i.tokOut = "cached" /\ i.fileProj = "P"
                          /\ i.status \in {200, 500}}

NextPool ==
    \/ upload(MaxCreds, Users, {EmailSeq[nextId]}, BOOLEAN, ProbedUploads)
    \/ toggle
    \/ \E u \in Users : pool_select(u)
    \/ \E c \in CredIds : record_usage(c)
    \/ Tick

SpecPool == Init /\ [][NextPool]_vars

----------------------------------------------------------------------------
(* Background batches running side by side on one credential; the refresh *)
(* of run r hands out token r                                             *)

AnsweredVerifies ==
    {i \in VerifyInputs : i.tokOut = "cached" /\ i.resolved = NoProject
                          /\ i.status \in {200, 401}}

verify_all_step(r) ==
    \E c \in CredIds, refreshOut \in {"refreshed", "none", "raise"},
       status \in {200, 500, ProbeException} :
        verify_single(r, c, refreshOut, r, "P", status)

start_all_step(r) ==
    \E c \in CredIds, refreshOut \in {"refreshed", "none", "raise"} :
        refresh_single(r, c, refreshOut, r)

NextBatch ==
    \/ upload(1, {"u1"}, {"a"}, {FALSE}, ProbedUploads)
    \/ verify({0}, AnsweredVerifies)
    \/ \E r \in RunIds : verify_all_antigravity_credentials(r)
    \/ \E r \in RunIds : verify_all_step(r)
    \/ \E r \in RunIds : verify_all_write_back(r, "ok")
    \/ \E r \in RunIds : start_all_antigravity_credentials(r)
    \/ \E r \in RunIds : start_all_step(r)
    \/ \E r \in RunIds : start_all_write_back(r, "ok")

SpecBatch == Init /\ [][NextBatch]_vars

----------------------------------------------------------------------------
(* The resolver followed call by call, and the OAuth callback that stores   *)
(* what it returned                                                         *)

callback_resolved ==
    /\ rs.pc = "returned"
    /\ antigravity_credential_from_callback_url(1, "u1", "ok", "a", "a", FALSE, 1,
                                                rs.result, 200, 200)

\* resolutions for the callback that stores the first credential
resolve ==
    /\ Ids = {}
    /\ \E resp \in PrimaryResponses : fetch_antigravity_project_id(resp)

NextResolve ==
    \/ resolve
    \/ \E resp \in TierResponses : onboard_tier_call(resp)
    \/ \E resp \in OnboardResponses : onboard_user_attempt(resp)
    \/ callback_resolved

\* every upstream call is made with timeout=30.0: it answers or raises
ResolverStep ==
    \/ \E resp \in TierResponses : onboard_tier_call(resp)
    \/ \E resp \in OnboardResponses : onboard_user_attempt(resp)

SpecResolve == Init /\ [][NextResolve]_vars /\ WF_vars(ResolverStep)

----------------------------------------------------------------------------
(* Imports of several documents next to OAuth callbacks for account "a"     *)

\* what is sent: JSON files only, one archive, an unreadable archive, a file
\* that is neither .json nor .zip ahead of a JSON file
Uploads == {<<"json">>, <<"zip">>, <<"badzip">>, <<"other", "json">>}

\* u1 imports, while the table holds at most two credentials
import_begin ==
    /\ Cardinality(Ids) <= 2
    /\ \E kinds \in Uploads : upload_begin("u1", FALSE, FALSE, kinds)

import_entry == \E e \in Entries : upload_entry(MaxEntries, e, "ok")

callback_account_a ==
    /\ imp.pc = "idle"
    /\ \E u \in Users :
          antigravity_credential_from_callback_url(4, u, "ok", "a", "a", FALSE, 1,
                                                   "P", 200, 200)

NextImport ==
    \/ import_begin
    \/ import_entry
    \/ upload_commit("ok", "ok")
    \/ callback_account_a

SpecImport == Init /\ [][NextImport]_vars

----------------------------------------------------------------------------
(* Import of one document followed by exports and deletions *)

\* A document by its refresh_token, email and project_id fields, each possibly
\* missing, and what the upstream answers while it is imported. The file's
\* project id is "F", the resolver's "P"
Documents ==
    {d \in [refresh : {"", "a", "b"}, email : {"", "a"}, project_id : {NoProject, "F"},
            tokOut : {"cached", "none"}, resolved : ResolverOutcomes,
            status : {200, 500}] :
        /\ d.refresh = "" => d.tokOut = "cached"
        /\ d.tokOut # "cached" \/ d.project_id # NoProject \/ d.refresh = ""
              => d.resolved = NoProject
        /\ ~UploadValid(d.tokOut, d.project_id, 200) /\ d.resolved = NoProject
              => d.status = 200}

import_document ==
    \E u \in Users, d \in Documents :
        upload_antigravity_credentials(MaxCreds, u, d.refresh, d.email, "f.json", FALSE,
                                       FALSE, d.project_id, d.tokOut, d.resolved,
                                       d.status)

export_document == \E u \in Users, c \in CredIds : export_my_antigravity_credential(u, c)

delete_document == \E u \in Users, c \in CredIds : delete_my_antigravity_credential(u, c)

NextRoundTrip ==
    \/ import_document
    \/ export_document
    \/ delete_document

SpecRoundTrip == Init /\ [][NextRoundTrip]_vars

----------------------------------------------------------------------------
(* Deletions next to the usage log *)

\* ids a request may name: those handed out so far and the next one
KnownIds == 1..nextId

create_probed ==
    /\ nextId <= MaxCreds
    /\ upload(MaxCreds, Users, {EmailSeq[nextId]}, {FALSE}, ProbedUploads)

create_other ==
    /\ nextId <= MaxCreds
    /\ other_kind_credential(1, "u1", EmailSeq[nextId], FALSE)

delete_my == \E u \in Users, c \in KnownIds : delete_my_antigravity_credential(u, c)

delete_my_inactive ==
    \E u \in Users, commit \in {"ok", "fail"} :
        delete_my_inactive_antigravity_credentials(u, commit)

batch_delete ==
    \E ids \in SUBSET KnownIds : batch_antigravity_credential_action("delete", ids)

NextDelete ==
    \/ create_probed
    \/ create_other
    \/ \E c \in KnownIds : log_usage(c)
    \/ delete_my
    \/ delete_my_inactive
    \/ delete_inactive_antigravity_credentials
    \/ batch_delete

SpecDelete == Init /\ [][NextDelete]_vars

----------------------------------------------------------------------------
(* Every operation of the manager on a table that also holds a credential   *)
(* of another kind, each user and the administrator naming any id           *)

\* one credential of this kind at a time
create_account ==
    /\ nextId <= MaxCreds
    /\ upload(1, Users, {"a"}, {FALSE}, ProbedUploads)

create_other_a ==
    /\ nextId <= MaxCreds
    /\ \E act \in BOOLEAN : other_kind_credential(1, "u1", "a", act)

patch_active ==
    \E u \in Users, c \in CredIds, is_active \in {"true", "false"} :
        update_my_antigravity_credential(u, c, "unset", is_active)

export == \E u \in Users, c \in CredIds : export_my_antigravity_credential(u, c)

quota ==
    \E u \in Users, c \in CredIds, tokOut \in {"cached", "none"} :
        get_antigravity_credential_quota(u, c, tokOut, 0)

batch_any ==
    \E action \in {"enable", "disable", "delete"}, ids \in SUBSET CredIds :
        batch_antigravity_credential_action(action, ids)

\* the requests, made while no batch is running
requests ==
    \/ create_account
    \/ create_other_a
    \/ \E u \in Users : list_my_antigravity_credentials(u)
    \/ patch_active
    \/ \E u \in Users, c \in CredIds : delete_my_antigravity_credential(u, c)
    \/ delete_my_inactive
    \/ verify({0}, AnsweredVerifies)
    \/ refresh_project({0})
    \/ export
    \/ quota
    \/ batch_any
    \/ delete_inactive_antigravity_credentials
    \/ toggle
    \/ admin_verify({0}, AnsweredVerifies)

NextKinds ==
    \/ runs[1].kind = "idle" /\ requests
    \/ verify_all_antigravity_credentials(1)
    \/ \E c \in CredIds : verify_single(1, c, "refreshed", 1, "P", 200)
    \/ verify_all_write_back(1, "ok")
    \/ start_all_antigravity_credentials(1)
    \/ \E c \in CredIds : refresh_single(1, c, "refreshed", 1)
    \/ start_all_write_back(1, "ok")

SpecKinds == Init /\ [][NextKinds]_vars

----------------------------------------------------------------------------
(* One background batch at a time over several credentials, next to         *)
(* deletions; the commit of the write-back may fail                         *)

delete_one == \E c \in KnownIds : batch_antigravity_credential_action("delete", {c})

create_tally ==
    /\ nextId <= MaxCreds
    /\ upload(MaxCreds, {"u1"}, {EmailSeq[nextId]}, {FALSE}, ProbedUploads)

NextTally ==
    \/ create_tally
    \/ delete_one
    \/ verify_all_antigravity_credentials(1)
    \/ verify_all_step(1)
    \/ \E commit \in {"ok", "fail"} : verify_all_write_back(1, commit)
    \/ start_all_antigravity_credentials(1)
    \/ start_all_step(1)
    \/ \E commit \in {"ok", "fail"} : start_all_write_back(1, commit)

SpecTally == Init /\ [][NextTally]_vars

----------------------------------------------------------------------------
(* The coroutines of one run at their semaphore *)

NextSemaphore ==
    \/ \E kind \in {"verify", "start"}, n \in 0..MaxTasks : run_in_background(kind, n)
    \/ semaphore_acquire
    \/ semaphore_release
    \/ gather_returns

SpecSemaphore == Init /\ [][NextSemaphore]_vars

----------------------------------------------------------------------------
(* The cache next to a remote store that comes and goes *)

NextCache ==
    \/ \E key \in Keys : cache_get(key)
    \/ \E key \in Keys, value \in Values, ttl \in TTLs : cache_set(key, value, ttl)
    \/ \E key \in Keys : cache_delete(key)
    \/ cache_clear
    \/ \E prefix \in Prefixes : cache_clear_prefix(prefix)
    \/ \E state \in {"up", "down"} : remote_store(state)
    \/ Tick

SpecCache == Init /\ [][NextCache]_vars

----------------------------------------------------------------------------
(* Authentication by API key while the store changes under the cache *)

NextAuth ==
    \/ \E active \in BOOLEAN, dq \in {0, 1} : create_user(active, dq)
    \/ \E active \in BOOLEAN, dq \in {0, 1} : update_user(active, dq)
    \/ \E active \in BOOLEAN : update_api_key(active)
    \/ get_user_by_api_key
    \/ \E key \in {<<"stats", "a">>}, ttl \in TTLs, fresh \in Values \cup {Coroutine} :
          cached(key, ttl, fresh)
    \/ \E state \in {"up", "down"} : remote_store(state)
    \/ Tick

SpecAuth == Init /\ [][NextAuth]_vars

----------------------------------------------------------------------------
(* RedisService without a connection *)

NextRedis ==
    \/ \E key \in RedisKeys : redis_get(key)
    \/ \E key \in RedisKeys, value \in Values, expire \in Expires :
          redis_set(key, value, expire)
    \/ \E key \in RedisKeys : redis_delete(key)
    \/ redis_clock

SpecRedis == Init /\ [][NextRedis]_vars

----------------------------------------------------------------------------
(* The cooldown remaining as a function of its inputs *)

NextCooldown ==
    \E last_used \in -1..MaxTicks, cd_seconds \in -1..CooldownSeconds,
       t1 \in 0..MaxTicks, t2 \in 0..MaxTicks :
        cd_remaining_twice(last_used, cd_seconds, t1, t2)

SpecCooldown == Init /\ [][NextCooldown]_vars

----------------------------------------------------------------------------
(* One import of many documents: the commit after the 50th stored           *)
(* credential and the final commit, each of which may fail                  *)

\* the largest number of documents of the import
MaxBulk == 52

BulkNames ==
    <<
      "n01", "n02", "n03", "n04", "n05", "n06", "n07", "n08", "n09", "n10",
      "n11", "n12", "n13", "n14", "n15", "n16", "n17", "n18", "n19", "n20",
      "n21", "n22", "n23", "n24", "n25", "n26", "n27", "n28", "n29", "n30",
      "n31", "n32", "n33", "n34", "n35", "n36", "n37", "n38", "n39", "n40",
      "n41", "n42", "n43", "n44", "n45", "n46", "n47", "n48", "n49", "n50",
      "n51", "n52", "n53", "n54", "n55", "n56", "n57", "n58", "n59", "n60"
    >>

\* the n-th well-formed document: its own email and refresh token, valid
BulkEntry(n) == Entry("ok", BulkNames[n], BulkNames[n], 200)

bulk_begin ==
    /\ last.op = "init"
    /\ upload_begin("u1", FALSE, FALSE, <<"json">>)

bulk_entry ==
    \E commit \in {"ok", "fail"} :
        upload_entry(MaxBulk, BulkEntry(imp.count + 1), commit)

\* a document that is not JSON; at most two of them
bulk_bad ==
    /\ Len(imp.docs) - imp.count < 2
    /\ upload_entry(MaxBulk, Entry("bad", "a", "", 200), "ok")

bulk_commit == \E commit \in {"ok", "fail"}, retry \in {"ok", "fail"} : upload_commit(commit, retry)

NextBulk ==
    \/ bulk_begin
    \/ bulk_entry
    \/ bulk_bad
    \/ bulk_commit

SpecBulk == Init /\ [][NextBulk]_vars

----------------------------------------------------------------------------
(* Callback requests that may overlap *)

callback_request ==
    \E q \in Requests, u \in Users, isPublic \in BOOLEAN :
        callback_lookup(q, u, "a", "a", isPublic, 1, "P")

callback_answer ==
    \E q \in Requests, status \in {200, 401}, status3 \in {200, 403} :
        callback_commit(MaxCreds + 1, q, status, status3)

NextCallback ==
    \/ callback_request
    \/ callback_answer

SpecCallback == Init /\ [][NextCallback]_vars

----------------------------------------------------------------------------
(* Properties *)

JustCreated ==
    last.op \in {"upload", "callback"} /\ last.status \in {"success", "warning", "created"}

\* C1: every stored credential with is_public = true has is_active = true and a
\* last_error containing neither '401' nor '403'
C1_PublicImpliesHealthy ==
    \A c \in Ids : creds[c].is_public =>
        creds[c].is_active /\ ~HasAuthCode(creds[c].last_error)

\* C2: a PATCH asking is_public = true for an owned credential that is inactive or
\* whose last_error contains '401'/'403' is answered 400 and changes no field of
\* any row, whatever is_active value the same request carries
C2_PatchRejectedUnchanged ==
    [][ (/\ last'.op = "patch"
         /\ last'.is_public = "true"
         /\ last'.id \in Ids
         /\ creds[last'.id].user_id = last'.user
         /\ \/ ~creds[last'.id].is_active
            \/ /\ creds[last'.id].last_error.k # "none"
               /\ \/ creds[last'.id].last_error.code \in {401, 403}
                  \/ creds[last'.id].last_error.at > 0)
        => (last'.status = 400 /\ creds' = creds) ]_vars

\* C2 witness: a rejected PATCH that carried an is_active value, on an active
\* credential whose last_error holds an authentication code
C2_Witness ==
    /\ last.op = "patch" /\ last.status = 400 /\ last.is_active = "false"
    /\ creds[last.id].is_active
    /\ HasAuthCode(creds[last.id].last_error)

\* C3: a credential created by import or by the OAuth callback is public only if
\* its validity check found it valid and it is stored active; a requested public
\* flag on an invalid credential is stored as false
C3_CreatedPublicOnlyIfValid ==
    JustCreated =>
        /\ creds[last.id].is_public => (last.is_valid /\ creds[last.id].is_active)
        /\ (last.wantPublic /\ ~last.is_valid) => ~creds[last.id].is_public

\* C6: the verdict of the verify endpoints is the table of the probe outcome:
\* 200/429 valid without error, 401/403 invalid with an authentication error,
\* another status invalid with an error carrying the status, an exception
\* invalid with a transport error
C6_VerdictTable ==
    (last.op \in {"verify", "admin_verify"} /\ last.status = "answered" /\ last.probed) =>
        /\ last.probe \in {200, 429} => (last.is_valid /\ last.error = NoError)
        /\ last.probe \in {401, 403} =>
              (~last.is_valid /\ last.error.k = "auth" /\ last.error.code = last.probe)
        /\ last.probe \notin {200, 429, 401, 403, ProbeException} =>
              (~last.is_valid /\ last.error.k = "api" /\ last.error.code = last.probe)
        /\ last.probe = ProbeException => (~last.is_valid /\ last.error.k = "exc")
        /\ creds[last.id].is_active = last.is_valid
        /\ creds[last.id].last_error = last.error

\* C6 witness: a user verification whose probe was rate-limited (429) is
\* answered valid
C6_Witness ==
    /\ last.op = "verify" /\ last.status = "answered" /\ last.probed
    /\ last.probe = 429 /\ last.is_valid

\* C7: every probe site stores is_active = true exactly for a 200/429 answer of
\* the baseline probe; any other status, or an exception, stores false
C7_SameActiveAtEverySite ==
    /\ (\/ JustCreated
        \/ last.op = "callback" /\ last.status = "updated"
        \/ last.op \in {"verify", "admin_verify"} /\ last.status = "answered")
       => (last.probed => (creds[last.id].is_active = (last.probe \in {200, 429})))
    /\ last.op = "verify_single" =>
          (last.refreshOut = "refreshed" /\ last.is_valid => last.probe \in {200, 429})

\* C8: a verify operation whose refresh or probe failed leaves the credential
\* with is_active = false and a non-empty last_error when it answers or ends
C8_FailureRecorded ==
    /\ (last.op \in {"verify", "admin_verify"} /\ last.status \in {"answered", "raised"}
        /\ (last.status = "raised" \/ ~last.is_valid))
       => (~creds[last.id].is_active /\ creds[last.id].last_error # NoError)
    /\ last.op = "verify_all_done" =>
          \A c \in DOMAIN last.res \cap Ids :
              ~last.res[c].is_valid =>
                  (~creds[c].is_active /\ creds[c].last_error # NoError)

\* C9: a verify or start operation that marks a credential active leaves its
\* last_error cleared in the same commit
C9_ActiveClearsError ==
    /\ (last.op \in {"verify", "admin_verify"} /\ last.status = "answered"
        /\ last.is_valid)
       => (creds[last.id].is_active /\ creds[last.id].last_error = NoError)
    /\ last.op = "verify_all_done" =>
          \A c \in DOMAIN last.res \cap Ids :
              last.res[c].is_valid =>
                  (creds[c].is_active /\ creds[c].last_error = NoError)
    /\ last.op = "start_all_done" =>
          \A c \in DOMAIN last.res \cap Ids :
              last.res[c].token # 0 =>
                  (creds[c].is_active /\ creds[c].last_error = NoError)

Quiescent == \A r \in RunIds : runs[r].kind = "idle"

\* C10: the stored access token is at every moment the initial token or a whole
\* token some refresh returned, and once every batch has finished it is the
\* token of the last committed write
C10_TokenWholeLastWriterWins ==
    \A c \in Ids :
        /\ creds[c].api_key \in {0} \cup wlog.issued
        /\ Quiescent => creds[c].api_key = wlog.lastw[c]

\* C10 witness: run 2 (start-all) has committed its token while run 1
\* (verify-all), which refreshed the same credential, has not yet written back
C10_Witness ==
    /\ last.op = "start_all_done" /\ last.run = 2
    /\ runs[1].kind = "verify" /\ 1 \in DOMAIN runs[1].res
    /\ runs[1].res[1].token = 1
    /\ 1 \in Ids /\ creds[1].api_key = 2

\* C4: Pool.select never returns an inactive credential: what it returns is
\* active and owned by the requester or public
C4_SelectNeverInactive ==
    (last.op = "select" /\ last.id # 0) =>
        /\ creds[last.id].is_active
        /\ creds[last.id].user_id = last.user \/ creds[last.id].is_public

\* C4 witness: a selection answered while another owner's inactive credential
\* still carries is_public = true
C4_Witness ==
    /\ last.op = "select" /\ last.id # 0
    /\ \E c \in Ids : /\ ~creds[c].is_active /\ creds[c].is_public
                      /\ creds[c].user_id # last.user

TrueRemaining(c) ==
    IF creds[c].last_used_at < 0 THEN 0
    ELSE IF creds[c].last_used_at + CooldownSeconds > now
         THEN creds[c].last_used_at + CooldownSeconds - now ELSE 0

IsEligible(u, c) ==
    creds[c].is_active /\ (creds[c].user_id = u \/ creds[c].is_public)

\* C5: Pool.select answers "no credential available" exactly when no credential
\* is eligible; otherwise it returns an eligible credential, one with zero
\* remaining cooldown if there is one, else one with the smallest remaining
C5_SelectPreference ==
    last.op = "select" =>
        /\ last.id = 0 <=> ~(\E c \in Ids : IsEligible(last.user, c))
        /\ last.id # 0 =>
              /\ IsEligible(last.user, last.id)
              /\ \A d \in Ids : IsEligible(last.user, d) =>
                     TrueRemaining(last.id) <= TrueRemaining(d)

\* C5 witness: every eligible credential is cooling down and the one returned
\* has a strictly smaller remaining cooldown than another eligible one
C5_Witness ==
    /\ last.op = "select" /\ last.id # 0
    /\ TrueRemaining(last.id) > 0
    /\ \E d \in Ids : IsEligible(last.user, d) /\ TrueRemaining(d) > TrueRemaining(last.id)

\* C16: a stored non-empty project_id is replaced only by a project id the
\* resolver returned: no step replaces it by an empty value or by a synthesized
\* placeholder, and a failed re-resolution leaves it as it was
C16_ProjectIdOnlyFromResolver ==
    [][\A c \in Ids :
          (creds[c].project_id # NoProject /\ creds'[c].project_id # creds[c].project_id)
          => creds'[c].project_id \in ResolverOutcomes \ {NoProject}]_vars

\* C17: the tier reported by the OAuth callback is '3' exactly when the
\* baseline probe and the second, higher-capability probe both answered 200 or
\* 429, and '2.5' otherwise; the second probe is made only after a baseline
\* answer of 200 or 429
C17_TierUpgrade ==
    (last.op = "callback" /\ last.status \in {"created", "updated"}) =>
        /\ last.tier \in {"2.5", "3"}
        /\ last.tier = "3" <=> (/\ last.probe \in {200, 429}
                                /\ last.probed3
                                /\ last.probe3 \in {200, 429})
        /\ last.probed3 => last.probe \in {200, 429}

\* C17 witness: a valid baseline (429) whose second probe was refused (403)
\* keeps the base tier
C17_Witness ==
    /\ last.op = "callback" /\ last.status = "created"
    /\ last.probe = 429 /\ last.probed3 /\ last.probe3 = 403
    /\ last.tier = "2.5" /\ creds[last.id].is_active

----------------------------------------------------------------------------
(* Properties of the project id resolver *)

Answered(resp) == resp.status = 200 /\ resp.parsed

NotDone(resp) == Answered(resp) /\ ~resp.done

\* C11: when the primary probe answers 200 with currentTier set and a non-empty
\* cloudaicompanionProject, the resolver returns that project id and makes
\* neither a tier discovery call nor a provisioning call
C11_PrimaryHitNoFurtherCalls ==
    (/\ Len(rs.load) = 1
     /\ Answered(rs.load[1])
     /\ rs.load[1].currentTier # ""
     /\ rs.load[1].project # "")
    => /\ rs.pc = "returned"
       /\ rs.result = rs.load[1].project
       /\ rs.tier = <<>>
       /\ rs.polls = <<>>

\* C11 witness: {currentTier: FREE, cloudaicompanionProject: P} returned P
C11_Witness ==
    /\ rs.pc = "returned" /\ rs.result = "P"
    /\ rs.load = <<LoadResponse(200, TRUE, "FREE", "P", <<>>)>>

\* C12: the provisioning endpoint is called at most 5 times per resolution,
\* always with the same request; every call but the last was answered 200 and
\* not done, and the first done or failed answer ends the resolution; the
\* answers [not done, done with P] return P after exactly 2 calls, and 5
\* not-done answers return absent after exactly 5 calls
C12_PollingBounded ==
    /\ Len(rs.polls) <= MaxAttempts
    /\ \A i \in DOMAIN rs.polls : rs.polls[i].tierId = rs.polls[1].tierId
    /\ \A i \in DOMAIN rs.polls : i < Len(rs.polls) => NotDone(rs.polls[i].resp)
    /\ (Len(rs.polls) >= 1 /\ ~NotDone(rs.polls[Len(rs.polls)].resp))
          => rs.pc = "returned"
    /\ (/\ Len(rs.polls) = 2
        /\ rs.polls[2].resp = OnboardResponse(200, TRUE, TRUE, "object", "P"))
          => (rs.pc = "returned" /\ rs.result = "P")
    /\ (Len(rs.polls) = 5 /\ NotDone(rs.polls[5].resp))
          => (rs.pc = "returned" /\ rs.result = NoProject)
    /\ (rs.pc = "onboard" /\ Len(rs.polls) >= 1)
          => (Len(rs.polls) < 5 /\ NotDone(rs.polls[Len(rs.polls)].resp))

\* C12 witness: five not-done answers, the resolver has returned absent
C12_Witness ==
    /\ rs.pc = "returned" /\ rs.result = NoProject
    /\ Len(rs.polls) = 5
    /\ \A i \in 1..5 : NotDone(rs.polls[i].resp)

\* C13: from a done provisioning answer the project id is the bare string when
\* it is a non-empty string, the id field when it is an object with a non-empty
\* id, and absent for any other shape or an empty or missing id; the
\* resolution ends there
C13_BothEncodings ==
    (Len(rs.polls) >= 1 /\ Answered(rs.polls[Len(rs.polls)].resp)
                        /\ rs.polls[Len(rs.polls)].resp.done)
    => LET resp == rs.polls[Len(rs.polls)].resp IN
       /\ rs.pc = "returned"
       /\ (resp.shape \in {"string", "object"} /\ resp.id # "") => rs.result = resp.id
       /\ (resp.shape \notin {"string", "object"} \/ resp.id = "") => rs.result = NoProject

\* C13 witness: a done answer carrying the project id as a bare string
C13_Witness ==
    /\ rs.pc = "returned" /\ rs.result = "P"
    /\ Len(rs.polls) >= 1
    /\ rs.polls[Len(rs.polls)].resp = OnboardResponse(200, TRUE, TRUE, "string", "P")

\* C14: every provisioning call carries a non-empty tier id: the id of the
\* first tier flagged default in the allowed-tier list of the discovery answer,
\* and 'LEGACY' when the list is empty or flags no tier
C14_TierSent ==
    \A i \in DOMAIN rs.polls :
        /\ rs.polls[i].tierId # ""
        /\ Len(rs.tier) = 1 /\ Answered(rs.tier[1])
        /\ LET l == rs.tier[1].allowedTiers IN
           IF \A j \in DOMAIN l : ~l[j].isDefault
           THEN rs.polls[i].tierId = "LEGACY"
           ELSE \E j \in DOMAIN l :
                   /\ l[j].isDefault
                   /\ \A k \in 1..(j - 1) : ~l[k].isDefault
                   /\ rs.polls[i].tierId = l[j].id

\* C14 witness: two tiers flagged default with different ids, the first one sent
C14_Witness ==
    /\ Len(rs.polls) >= 1 /\ Len(rs.tier) = 1
    /\ Len(rs.tier[1].allowedTiers) = 2
    /\ rs.tier[1].allowedTiers[1] = [isDefault |-> TRUE, id |-> "T2"]
    /\ rs.tier[1].allowedTiers[2] = [isDefault |-> TRUE, id |-> "T1"]
    /\ rs.polls[1].tierId = "T2"

ResolverSafe ==
    /\ rs.pc \in {"idle", "tier", "onboard", "returned"}
    /\ Len(rs.load) <= 1 /\ Len(rs.tier) <= 1 /\ Len(rs.polls) <= MaxAttempts
    /\ rs.pc # "returned" => rs.result = NoProject
    /\ (last.op = "callback" /\ last.status = "created")
          => /\ creds[last.id].project_id # NoProject
             /\ last.resolved # NoProject => creds[last.id].project_id = last.resolved

\* C15: whatever the upstream answers (statuses, exceptions, malformed
\* payloads), a resolution never raises, makes at most 1 + 1 + 5 calls and,
\* once started, returns (a project id or absent); the OAuth callback stores
\* the credential with a non-empty project id even when the resolver returned
\* absent
C15_ResolverTotal ==
    /\ []ResolverSafe
    /\ (rs.pc \in {"tier", "onboard"}) ~> (rs.pc = "returned")

\* C15 witness: the callback has stored a credential under the placeholder
\* after a resolution that used all five provisioning attempts
C15_Witness ==
    /\ last.op = "callback" /\ last.status = "created" /\ last.resolved = NoProject
    /\ rs.pc = "returned" /\ rs.result = NoProject /\ Len(rs.polls) = 5
    /\ creds[last.id].project_id = "R"

----------------------------------------------------------------------------
(* Properties of the file import. While the loop runs, creds is the table   *)
(* as committed before the import and imp.tbl the table the commit writes   *)

EntryResult(i) == imp.results[imp.pre + i]

Stored(i) == EntryResult(i) \in {"success", "warning"}

WellFormed(e) == e.json = "ok" /\ e.refresh # ""

\* document i shares neither its email nor its refresh token with a stored
\* credential or with a well-formed document ahead of it
Fresh(i) ==
    /\ \A c \in Ids : /\ creds[c].email # imp.docs[i].email
                      /\ creds[c].refresh_token # encrypt_credential(imp.docs[i].refresh)
    /\ \A j \in 1..(i - 1) :
          WellFormed(imp.docs[j]) => /\ imp.docs[j].email # imp.docs[i].email
                                     /\ imp.docs[j].refresh # imp.docs[i].refresh

\* C18: every JSON document of an import gets exactly one result; a malformed
\* document or one without refresh_token gets 'error', stores nothing and does
\* not keep a later well-formed, fresh document from being stored;
\* uploaded_count is the number of credentials created, and the credentials
\* stored before are left as they were
C18_EntriesIndependent ==
    imp.pc = "loop" =>
        /\ Len(imp.results) = imp.pre + Len(imp.docs)
        /\ \A i \in DOMAIN imp.docs :
              /\ EntryResult(i) \in {"success", "warning", "skip", "error"}
              /\ ~WellFormed(imp.docs[i]) => EntryResult(i) = "error"
              /\ (WellFormed(imp.docs[i]) /\ Fresh(i)) => Stored(i)
        /\ imp.count = Cardinality({i \in DOMAIN imp.docs : Stored(i)})
        /\ imp.count = Cardinality(DOMAIN imp.tbl \ Ids)
        /\ \A c \in Ids : imp.tbl[c] = creds[c]
        /\ \A c \in DOMAIN imp.tbl \ Ids :
              \E i \in DOMAIN imp.docs :
                  /\ Stored(i) /\ WellFormed(imp.docs[i])
                  /\ imp.tbl[c].email = imp.docs[i].email
                  /\ imp.tbl[c].refresh_token = encrypt_credential(imp.docs[i].refresh)

\* C18 witness: a malformed document, then one without refresh_token, then a
\* valid one that is stored
C18_Witness ==
    /\ imp.pc = "loop" /\ Len(imp.docs) = 3
    /\ imp.docs[1].json = "bad"
    /\ imp.docs[2].json = "ok" /\ imp.docs[2].refresh = ""
    /\ WellFormed(imp.docs[3]) /\ EntryResult(3) = "success"
    /\ imp.count = 1

\* C19: an import of one valid JSON credential, one JSON without refresh_token
\* and one JSON whose email is the email of a stored credential gives the three
\* documents the results success, error, skip, and uploaded_count = 1
C19_BundleScenario ==
    (/\ imp.pc = "loop" /\ Len(imp.docs) = 3
     /\ WellFormed(imp.docs[1]) /\ Fresh(1) /\ imp.docs[1].status = 200
     /\ imp.docs[2].json = "ok" /\ imp.docs[2].refresh = ""
     /\ WellFormed(imp.docs[3])
     /\ \E c \in Ids : creds[c].email = imp.docs[3].email)
    => /\ <<EntryResult(1), EntryResult(2), EntryResult(3)>> = <<"success", "error", "skip">>
       /\ imp.count = 1

\* C20: no two stored credentials share an email or a refresh token, and a
\* document whose email and refresh token are those of a stored credential is
\* reported as skip while the stored credentials stay as they are
C20_NoDuplicates ==
    /\ \A c, d \in Ids :
          c # d => /\ creds[c].email # creds[d].email
                   /\ creds[c].refresh_token # creds[d].refresh_token
    /\ imp.pc = "loop" =>
          /\ \A i \in DOMAIN imp.docs :
                (/\ WellFormed(imp.docs[i])
                 /\ \E c \in Ids : /\ creds[c].email = imp.docs[i].email
                                   /\ creds[c].refresh_token = encrypt_credential(imp.docs[i].refresh))
                => EntryResult(i) = "skip"
          /\ \A c \in Ids : imp.tbl[c] = creds[c]

----------------------------------------------------------------------------
(* Export after import *)

\* C21 (as stated): the export made right after a document X was imported
\* returns the refresh_token, email and project_id of X
C21_RoundTrip ==
    (last.op = "export" /\ last.status = 200 /\ last.just_imported) =>
        last.cred_data = last.doc

\* C21 (amended): the export made right after a document X was imported returns
\* the refresh_token of X, the email of X when X names one, and the project_id
\* of X when X names one
C21_RoundTripOfGivenFields ==
    (last.op = "export" /\ last.status = 200 /\ last.just_imported) =>
        /\ last.cred_data.refresh_token = last.doc.refresh_token
        /\ last.doc.email # "" => last.cred_data.email = last.doc.email
        /\ last.doc.project_id # NoProject =>
              last.cred_data.project_id = last.doc.project_id

\* C21 witness: the export right after the import of a document that names
\* its email and its project id
C21_Witness ==
    /\ last.op = "export" /\ last.status = 200 /\ last.just_imported
    /\ last.doc = [refresh_token |-> "a", email |-> "a", project_id |-> "F"]
    /\ last.cred_data = last.doc

----------------------------------------------------------------------------
(* Deletion and the usage log *)

DeleteOps == {"delete", "delete_my_inactive", "delete_inactive", "batch_action"}

----------------------------------------------------------------------------
(* Kinds and owners *)

\* the operations that address one credential by the id in the request
AddressedOps ==
    {"patch", "delete", "verify", "refresh_project", "export", "quota", "toggle",
     "admin_verify"}

\* the answer l is the not-found answer of its operation
NotFound(l) ==
    IF l.op \in {"verify", "admin_verify", "refresh_project"}
    THEN l.status = "notfound" ELSE l.status = 404

\* C23: no operation of the manager reads, modifies or deletes a credential of
\* another kind: such a row is the same after every step, an operation given
\* its id answers not-found, the list and the batch snapshots leave it out, and
\* the duplicate check of the import does not match it
C23_OtherKindsUntouched ==
    [][ /\ \A c \in DOMAIN creds :
              creds[c].api_type # MODE => (c \in DOMAIN creds' /\ creds'[c] = creds[c])
        /\ (/\ last'.op \in AddressedOps
            /\ last'.id \in DOMAIN creds
            /\ creds[last'.id].api_type # MODE)
           => NotFound(last')
        /\ last'.op = "list" => \A c \in last'.ids : creds[c].api_type = MODE
        /\ last'.op \in {"verify_all", "start_all"} =>
              \A c \in DOMAIN runs'[last'.run].snap : creds[c].api_type = MODE
        /\ (last'.op = "upload" /\ last'.status = "skip") =>
              \E c \in DOMAIN creds :
                  /\ creds[c].api_type = MODE
                  /\ \/ creds[c].email = last'.email
                     \/ creds[c].refresh_token = encrypt_credential(last'.refresh)
      ]_vars

\* C23 witness: the administrator's batch action has deleted the credential of
\* this kind while the stored credential of the other kind, of the same
\* account, is there as it was stored
C23_Witness ==
    /\ last.op = "batch_action" /\ last.action = "delete"
    /\ nextId = 3 /\ DOMAIN creds = {1}
    /\ creds[1] = OtherRow("u1", "a", FALSE)

\* the operations of a user on one credential
UserOps == {"patch", "delete", "verify", "refresh_project", "export", "quota"}

\* C24: a user-level operation on an id that does not exist or whose credential
\* another user owns is answered not-found, the answer has none of the
\* credential's data and the tables are as before
C24_NotFoundForOthers ==
    [][ (/\ last'.op \in UserOps
         /\ ~(last'.id \in DOMAIN creds /\ creds[last'.id].user_id = last'.user))
        => /\ NotFound(last')
           /\ DOMAIN last' \subseteq {"op", "status", "id", "user", "is_public", "is_active"}
           /\ creds' = creds /\ ulog' = ulog
      ]_vars

\* C24 witness: the export of a stored credential asked by a user who does not
\* own it is answered not-found
C24_Witness ==
    /\ last.op = "export" /\ last.status = 404
    /\ last.id \in DOMAIN creds
    /\ creds[last.id].api_type = MODE
    /\ creds[last.id].user_id # last.user

----------------------------------------------------------------------------
(* Background batches: tallies, commits, acknowledgement *)

\* C25: when a batch completes, every credential of the snapshot has produced
\* exactly one outcome and succeeded + failed is the number of credentials of
\* the snapshot
C25_TalliesCoverSnapshot ==
    last.op \in {"verify_all_done", "start_all_done"} =>
        /\ Cardinality(DOMAIN last.res) = last.total
        /\ last.succeeded + last.failed = last.total

\* the stored row c has the state that result res[c] of a verify-all or
\* start-all run asks for
Persisted(op, res, c) ==
    IF op = "verify_all_raised"
    THEN creds[c] = VerifyAllUpdate(creds[c], res[c])
    ELSE creds[c] = StartAllUpdate(creds[c], res[c])

\* C26: the results of a batch are committed in bounded groups, so that a
\* failed commit loses the results of its own group only: with groups as small
\* as they can be, of one result, at most one stored credential of a batch
\* whose commit failed is without its new state
C26_FailedCommitLosesOneGroup ==
    last.op \in {"verify_all_raised", "start_all_raised"} =>
        Cardinality({c \in DOMAIN last.res \cap DOMAIN creds :
                        ~Persisted(last.op, last.res, c)}) <= 1

\* C28: the handler of verify-all and of start-all answers with total = the
\* number of credentials of its snapshot before any per-credential call is
\* made and without changing a credential; the per-credential calls change
\* no stored credential either, only the write-back does
C28_ImmediateAcknowledgement ==
    [][ /\ (last'.op \in {"verify_all", "start_all"}) =>
              /\ last'.total = Cardinality(DOMAIN runs'[last'.run].snap)
              /\ last'.total = Cardinality({c \in DOMAIN creds : creds[c].api_type = MODE})
              /\ runs'[last'.run].res = <<>>
              /\ creds' = creds
              /\ wlog' = wlog
        /\ (last'.op \in {"verify_single", "refresh_single"}) => creds' = creds
      ]_vars

\* C28 witness: verify-all has answered total = 2 for two stored credentials,
\* one of them active, and no check has been made yet
C28_Witness ==
    /\ last.op = "verify_all" /\ last.total = 2
    /\ runs[last.run].res = <<>>
    /\ \E c \in DOMAIN creds : creds[c].is_active

\* C29: a batch over an empty snapshot makes no per-credential call and
\* completes with succeeded = 0 and failed = 0, leaving every credential as
\* it is
C29_EmptyBatch ==
    [][ /\ (last'.op \in {"verify_single", "refresh_single"}) =>
              DOMAIN runs[last'.run].snap # {}
        /\ (\E r \in RunIds : /\ runs[r].kind # "idle" /\ DOMAIN runs[r].snap = {}
                               /\ runs'[r].kind = "idle")
           => /\ last'.op \in {"verify_all_done", "start_all_done"}
              /\ last'.succeeded = 0 /\ last'.failed = 0
              /\ creds' = creds
              /\ wlog'.issued = wlog.issued
      ]_vars

\* C29 witness: a batch whose snapshot was empty has completed while a
\* credential, stored after the snapshot, is in the table
C29_Witness ==
    /\ last.op \in {"verify_all_done", "start_all_done"}
    /\ last.total = 0
    /\ DOMAIN creds # {}

\* C27: within one run the number of credentials inside their upstream calls
\* is never above 30 for verify-all and never above 50 for start-all, for any
\* number of credentials and any order of completion, and the limit of
\* verify-all is below that of start-all
C27_BoundedParallelism ==
    /\ sem.kind = "verify" => sem.active <= 30
    /\ sem.kind = "start" => sem.active <= 50
    /\ Limit("verify") < Limit("start")
    /\ sem.waiting + sem.active + sem.done = sem.total

\* C27 witness: a start-all run of more than 50 credentials has 50 of them
\* inside their calls, some returned and some still waiting
C27_Witness ==
    /\ sem.kind = "start" /\ sem.active = 50
    /\ sem.waiting > 0 /\ sem.done > 0

----------------------------------------------------------------------------
(* Cache *)

\* C30: cache.set never fails its caller, and a set made while the remote
\* store fails leaves the value in the local map under its key with expiry
\* now + ttl; cache.get, cache.delete and cache.clear_prefix never raise
\* either
C30_SetFallsBackToLocalMap ==
    /\ (last.op \in {"cache_set", "cache_get", "cache_delete", "cache_clear_prefix"})
          => ~last.raised
    /\ (last.op = "cache_set" /\ last.remote = "down") =>
          /\ cache._memory_cache[last.key] = last.value
          /\ cache._memory_expires[last.key] = last.at + last.ttl

\* the key has a local entry that has not expired
LocalLive(c, key, t) ==
    /\ c._memory_cache[key] # None
    /\ ~(c._memory_expires[key] # NoExpiry /\ t > c._memory_expires[key])

\* C31: cache.get takes the remote store's value first and consults the local
\* map when the remote store yields nothing: for a key that the remote store
\* does not hold (nothing was stored there) it returns the unexpired local
\* value, left in place, and otherwise absent, with the key in neither local
\* map afterwards
C31_GetRemoteThenLocal ==
    [][ (last'.op = "cache_get") =>
          IF LocalLive(cache, last'.key, now)
          THEN /\ last'.result = cache._memory_cache[last'.key]
               /\ cache' = cache
          ELSE /\ last'.result = None
               /\ cache'._memory_cache[last'.key] = None
               /\ cache'._memory_expires[last'.key] = NoExpiry
      ]_vars

\* C36: a cache.get(k) that directly follows cache.set(k, v, ttl), before ttl
\* has elapsed, returns v, with the remote store reachable or not
C36_GetAfterSet ==
    [][ ( /\ last.op = "cache_set"
          /\ last'.op = "cache_get"
          /\ last'.key = last.key
          /\ now' < last.at + last.ttl )
        => last'.result = last.value
      ]_vars

\* C32: the cached wrapper and get_user_by_api_key never answer with a cached
\* value that is an unresolved awaitable: having found one they answer from
\* the source and the cache no longer holds it under the key; and no awaitable
\* is ever written into the cache
C32_AwaitablesDiscarded ==
    [][ (last'.op \in {"cached", "get_user_by_api_key"}) =>
          /\ last'.from = "cache" =>
                (last'.found # [coroutine |-> TRUE] /\ last'.result = last'.found)
          /\ last'.found = [coroutine |-> TRUE] => last'.from = "source"
          /\ \A k \in Keys : cache'._memory_cache[k] # [coroutine |-> TRUE]
      ]_vars

\* C32 witness: get_user_by_api_key found an awaitable under the key and
\* answered with the user read from the store
C32_Witness ==
    /\ last.op = "get_user_by_api_key"
    /\ last.found = [coroutine |-> TRUE]
    /\ last.from = "source"
    /\ last.result = UserDict(auth.user)

----------------------------------------------------------------------------
(* RedisService, memory fallback *)

\* C40: without a connection, get answers by the last set of the key: the
\* value written without an expire at any later time, also when an earlier
\* set of the key had one; the value written with an expire until the expire
\* has elapsed, and nothing afterwards, the key being evicted; nothing for a
\* key never written or deleted
C40_MemoryFallbackExpiry ==
    [][ (last'.op = "redis_get") =>
          LET w == redis.written[last'.key] IN
          IF w = None THEN last'.result = None
          ELSE IF w.expire = 0 \/ redis.clock <= w.at + w.expire
          THEN last'.result = w.value
          ELSE /\ last'.result = None
               /\ redis'.memory_cache[last'.key] = None
               /\ redis'.memory_expires[last'.key] = NoExpiry
      ]_vars

----------------------------------------------------------------------------
(* Cooldown *)

\* C34: the cooldown remaining is the whole seconds of
\* max(0, last_used_at + cooldown_seconds - now): a non-negative integer, 0
\* when last_used_at is missing or cooldown_seconds <= 0, never larger at a
\* later instant, and exactly 0 at every instant from
\* last_used_at + cooldown_seconds on
C34_CooldownRemaining ==
    (last.op = "get_cd_remaining") =>
        LET left == last.last_used + last.cd_seconds * TicksPerSecond - last.t1 IN
        /\ last.r1 >= 0 /\ last.r2 >= 0
        /\ (last.last_used < 0 \/ last.cd_seconds <= 0) => last.r1 = 0
        /\ (last.last_used >= 0 /\ last.cd_seconds > 0) =>
              /\ left <= 0 => last.r1 = 0
              /\ left > 0 => (TicksPerSecond * last.r1 <= left /\ left < TicksPerSecond * (last.r1 + 1))
        /\ last.r2 <= last.r1

\* C34 witness: a cooldown of more than a second left at the first instant
\* is exactly 0 at the second, which is last_used_at + cooldown_seconds
C34_Witness ==
    /\ last.op = "get_cd_remaining"
    /\ last.last_used >= 0
    /\ last.r1 > 1
    /\ last.t2 = last.last_used + last.cd_seconds * TicksPerSecond
    /\ last.r2 = 0

----------------------------------------------------------------------------
(* Import: commits that fail *)

\* C35: the import always answers with its counts and one result per
\* document, never with an error: after a final commit that succeeded the
\* session's table is the stored one; after one that failed there was one
\* rollback and exactly one more commit, whatever the retry's outcome; and a
\* failed commit after a 50th credential changes nothing and leaves the loop
\* running, the document being recorded like any other
C35_CommitFailuresAbsorbed ==
    [][ /\ (last'.op = "import" /\ imp.pc = "loop") =>
              /\ ~last'.raised
              /\ last'.uploaded_count = imp.count
              /\ Len(imp.results) = imp.pre + Len(imp.docs)
              /\ last'.commit = "ok" =>
                    (last'.commits = 1 /\ last'.rollbacks = 0 /\ creds' = imp.tbl)
              /\ last'.commit = "fail" =>
                    (last'.commits = 2 /\ last'.rollbacks = 1 /\ creds' = creds)
        /\ (imp.pc = "loop" /\ imp'.pc = "loop" /\ imp'.failed > imp.failed) =>
              /\ creds' = creds
              /\ Len(imp'.docs) = Len(imp.docs) + 1
              /\ Len(imp'.results) = Len(imp.results) + 1
              /\ imp'.count = imp.count + 1
      ]_vars

\* C35 witness: an import of 51 credentials whose commit after the 50th
\* failed, whose final commit and retry failed too, has answered
\* uploaded_count = 51 with nothing stored
C35_Witness ==
    /\ last.op = "import"
    /\ ~last.raised
    /\ last.commit = "fail" /\ last.retry = "fail"
    /\ last.failed = 1
    /\ last.uploaded_count = 51
    /\ creds = <<>>

----------------------------------------------------------------------------
(* Deleting the inactive credentials of a user *)

\* C38: delete-all-inactive of a user removes only credentials that are
\* inactive, owned by the caller and of kind antigravity, and its
\* deleted_count is the number of credentials that left the store, also when
\* a commit failed and was rolled back
C38_DeletedCountIsRemoved ==
    [][ (last'.op = "delete_my_inactive") =>
          /\ \A c \in DOMAIN creds \ DOMAIN creds' :
                /\ ~creds[c].is_active
                /\ creds[c].user_id = last'.user
                /\ creds[c].api_type = MODE
          /\ last'.deleted_count = Cardinality(DOMAIN creds \ DOMAIN creds')
      ]_vars

----------------------------------------------------------------------------
(* OAuth callback: reward *)

\* C39: the callback grants reward quota exactly when the user holds no
\* credential of this email and kind, asked for a public credential and the
\* credential was found valid; when the user already holds one, the callback
\* updates it in place, creates no further credential and grants 0
C39_RewardOnlyForNew ==
    [][ (last'.op = "callback" /\ last'.status \in {"created", "updated"}) =>
          LET held == {c \in DOMAIN creds : /\ creds[c].api_type = MODE
                                            /\ creds[c].user_id = last'.user
                                            /\ creds[c].email = last'.email}
          IN  /\ (last'.reward > 0) <=>
                    (held = {} /\ last'.wantPublic /\ last'.is_valid)
              /\ held # {} => /\ last'.status = "updated"
                              /\ DOMAIN creds' = DOMAIN creds
                              /\ last'.reward = 0
      ]_vars

----------------------------------------------------------------------------
(* Background batches: a credential deleted during the run *)

\* C37: a credential deleted between the snapshot of a batch and its
\* write-back is not recreated by the write-back, the credentials of the
\* snapshot that are still stored get their new state, and every deleted
\* credential is counted exactly once in succeeded + failed
C37_DeletedDuringBatch ==
    [][ (last'.op \in {"verify_all_done", "start_all_done"}) =>
          LET res == last'.res
              deleted == DOMAIN res \ DOMAIN creds
              kept == DOMAIN res \cap DOMAIN creds
          IN  /\ DOMAIN creds' = DOMAIN creds
              /\ \A c \in kept :
                    creds'[c] = IF last'.op = "verify_all_done"
                                THEN VerifyAllUpdate(creds[c], res[c])
                                ELSE StartAllUpdate(creds[c], res[c])
              /\ last'.succeeded + last'.failed - Cardinality(kept)
                    = Cardinality(deleted)
      ]_vars

====
